---- MODULE Spec2Model ----
(***************************************************************************)
(* Authentication and session lifecycle of app/routes/auth.py.             *)
(*                                                                         *)
(* Strings are sequences of ASCII codes, so that str.lower() and the       *)
(* character-class tests of the validators are computed, not assumed.      *)
(* Time is counted in minutes.  Every datetime.utcnow() call is a separate *)
(* read of a monotone clock: the first read of a handler returns `now`,    *)
(* each later read returns the previous value or the minute after it.      *)
(* The handlers are `async def` bodies without an await, served by one     *)
(* event loop (main.py:254-260), so each handler is one atomic action.     *)
(***************************************************************************)
EXTENDS Integers, Sequences, FiniteSets, TLC

\* ------------------------------------------------------------- bounds
\* Tokens drawn from secrets.token_urlsafe over a run.
MaxTokens == 2
\* Advances of the clock between requests.
MaxTicks == 2
\* Advances of the clock between two reads of one handler.
MaxDrift == 1
\* Registration workflows held in the store at a time, and the same where
\* several workflows are followed side by side.
MaxWorkflows == 1
MaxStepWorkflows == 2

\* ------------------------------------------------- program constants
\* timedelta(days=30), timedelta(days=1) and timedelta(hours=1), in minutes.
RememberMinutes == 43200
SessionMinutes == 1440
ResetMinutes == 60
\* Minimum password lengths of LoginRequest, ResetPasswordRequest and
\* RegistrationRequest.
LoginMinLen == 6
ResetMinLen == 6
RegisterMinLen == 8

\* ------------------------------------------------------------ strings
\* "demo@healthcare.ai"
EmailDemo == <<100,101,109,111,64,104,101,97,108,116,104,99,97,114,101,46,97,105>>
\* "Demo@Healthcare.ai"
EmailDemoCaps == <<68,101,109,111,64,72,101,97,108,116,104,99,97,114,101,46,97,105>>
\* "Test@X.com"
EmailTestCaps == <<84,101,115,116,64,88,46,99,111,109>>
\* "test@x.com"
EmailTest == <<116,101,115,116,64,120,46,99,111,109>>

\* "bob@y.org"
EmailOther == <<98,111,98,64,121,46,111,114,103>>

\* The email addresses requests carry (all syntactically valid).
RawEmails == {EmailDemo, EmailTestCaps, EmailTest}

\* "demo123"
PwDemo == <<100,101,109,111,49,50,51>>
\* "Abcdef1!"
PwStrongA == <<65,98,99,100,101,102,49,33>>
\* "Qwerty9#"
PwStrongB == <<81,119,101,114,116,121,57,35>>
\* "Abcde1": six characters, upper, lower, digit, no symbol
PwSixNoSymbol == <<65,98,99,100,101,49>>
\* "Ab1!": four characters
PwShort == <<65,98,49,33>>

\* The passwords requests carry.
Passwords == {PwDemo, PwStrongA, PwSixNoSymbol, PwShort}

IsUpper(c) == c \in 65..90
IsLower(c) == c \in 97..122
IsDigit(c) == c \in 48..57
\* '!@#$%^&*(),.?":{}|<>'
SpecialChars == {33,64,35,36,37,94,38,42,40,41,44,46,63,34,58,123,125,124,60,62}

\* str.lower()
LowerChar(c) == IF IsUpper(c) THEN c + 32 ELSE c
Lower(s) == [i \in 1..Len(s) |-> LowerChar(s[i])]

HasUpper(s) == \E i \in 1..Len(s) : IsUpper(s[i])

HasLower(s) == \E i \in 1..Len(s) : IsLower(s[i])

HasDigit(s) == \E i \in 1..Len(s) : IsDigit(s[i])

\* ------------------------------------------------------------ hashing
\* ":" of a digest string.
Colon == 58
\* The salts secrets.token_hex(16) may draw: strings of hexadecimal digits
\* ("a" and "b").
Salts == {<<97>>, <<98>>}

\* bytes.hex(): the hexadecimal digits of a digest are written as symbols
\* above the character codes, so no digest holds a ":".
HexBase == 1000
Hex(bytes) == [i \in 1..Len(bytes) |-> bytes[i] + HexBase]
PasswordMark == 2001
SaltMark == 2000
LegacyMark == 2002

\* hashlib.sha256(p).hexdigest() and pbkdf2_hmac('sha256', p, salt, 100000).hex(),
\* as collision-free symbolic digests.
SHA256(p) == <<LegacyMark>> \o Hex(p)
PBKDF2(p, salt) == <<PasswordMark>> \o Hex(p) \o <<SaltMark>> \o Hex(salt)

\* f"{salt}:{password_hash.hex()}".  The definitions before it are a hash
\* that ignores the password and one that derives the key with another salt
\* than the one it writes.
hash_password_constant(password, salt) == salt \o <<Colon>> \o PBKDF2(<<>>, salt)
hash_password_other_salt(password, salt) == salt \o <<Colon>> \o PBKDF2(password, <<>>)
hash_password(password, salt) == salt \o <<Colon>> \o PBKDF2(password, salt)

\* ":" in password_hash, and password_hash.split(":", 1).
HasColon(s) == \E i \in 1..Len(s) : s[i] = Colon
FirstColon(s) ==
    CHOOSE i \in 1..Len(s) : s[i] = Colon /\ \A j \in 1..(i - 1) : s[j] # Colon
SplitOnce(s) ==
    <<SubSeq(s, 1, FirstColon(s) - 1), SubSeq(s, FirstColon(s) + 1, Len(s))>>

\* str.encode() raises UnicodeEncodeError on a lone surrogate (U+D800 to
\* U+DFFF) and on nothing else.
Encodable(s) == \A i \in 1..Len(s) : s[i] \notin 55296..57343

\* verify_password: every exception inside the try block is answered False.
\* The definition before it is a verify that knows the salted format only.
verify_password_salted_only(password, password_hash) ==
    /\ HasColon(password_hash)
    /\ Encodable(password)
    /\ Encodable(SplitOnce(password_hash)[1])
    /\ PBKDF2(password, SplitOnce(password_hash)[1]) = SplitOnce(password_hash)[2]
verify_password(password, password_hash) ==
    IF ~HasColon(password_hash)
    THEN Encodable(password) /\ SHA256(password) = password_hash
    ELSE /\ Encodable(password)
         /\ Encodable(SplitOnce(password_hash)[1])
         /\ PBKDF2(password, SplitOnce(password_hash)[1])
                = SplitOnce(password_hash)[2]

\* -------------------------------------------------------------- state
VARIABLES
    users_db,          \* normalized email -> account record
    sessions_db,       \* session token -> session record
    reset_tokens_db,   \* reset token -> reset record
    registration_sessions, \* registration_session cookie -> workflow record
    now,               \* the clock, in minutes
    ticks,             \* advances of the clock between requests so far
    drift,             \* advances of the clock inside handlers so far
    minted,            \* tokens drawn from the token generator so far
    user_seq,          \* user ids drawn so far
    consumed,          \* history: reset tokens that changed a password
    resp,              \* the response of the last request
    inflight,          \* requests accepted together, and their responses
    call,              \* a call of a function: its name, arguments and result
    profiles_db        \* users.py users_db: profile id -> user profile

vars == <<users_db, sessions_db, reset_tokens_db, registration_sessions, now,
          ticks, drift, minted, user_seq, consumed, resp, inflight, call, profiles_db>>

NoTime == -1
NoToken == 0
\* A cookie or token value the generator never issued.
ForgedToken == -1
NoUser == -1
DemoUserId == 0
NoString == <<>>

\* A store that keeps one entry only.
PutOnly(f, k, v) == [x \in {k} |-> v]
Put(f, k, v) == [x \in DOMAIN f \cup {k} |-> IF x = k THEN v ELSE f[x]]
Del(f, k) == [x \in DOMAIN f \ {k} |-> f[x]]

\* The last request and its response: the handler, the email, the password
\* and the token (cookie) the request carried, the HTTP status, the detail or
\* message of the body, the token the body or the Set-Cookie header carries,
\* the max_age of that cookie in seconds, the identity (account id, email) the
\* body reports, the names of the fields of the identity the body carries,
\* the workflow data the body carries (a set with at most one record), the
\* workflow records the handler removed, and whether the request before it
\* was a logout with the same cookie.
Response(op, req_email, req_token, status, detail) ==
    [op |-> op, req_email |-> req_email, req_password |-> NoString,
     req_token |-> req_token,
     status |-> status, detail |-> detail, token |-> NoToken, max_age |-> 0,
     user_id |-> NoUser, email |-> NoString, fields |-> {}, data |-> {},
     purged |-> {}, again |-> FALSE]

Idle == Response("idle", NoString, NoToken, 0, "")

\* The values the n clock reads of one handler may return, oldest first.
ClockReads(n) ==
    {r \in [1..n -> now..(now + n)] :
        /\ r[1] = now
        /\ \A i \in 2..n : r[i] - r[i-1] \in {0, 1}
        /\ drift + (r[n] - now) <= MaxDrift}

InitStores ==
    /\ users_db = (EmailDemo :> [id |-> DemoUserId, email |-> EmailDemo,
                                 password_hash |-> SHA256(PwDemo),
                                 last_login |-> NoTime, is_active |-> TRUE])
    /\ sessions_db = <<>>
    /\ reset_tokens_db = <<>>
    /\ registration_sessions = <<>>
    /\ now = 0
    /\ ticks = 0
    /\ drift = 0
    /\ minted = 0
    /\ user_seq = 0
    /\ consumed = {}
    /\ resp = Idle
    /\ profiles_db = <<>>

NoCall == [fn |-> "none"]

Init == InitStores /\ inflight = <<>> /\ call = NoCall

\* secrets.token_urlsafe(32) after n draws: a value no earlier draw returned.
token_urlsafe(n) == n + 1

\* A generator that hands out the token of its previous draw again.
create_session_token_reused(n) == IF n = 0 THEN 1 ELSE n
create_session_token(n) == token_urlsafe(n)

\* max_age of the session_token cookie, in seconds.
RememberMaxAge == 2592000
SessionMaxAge == 86400
CookieMaxAge(remember) == IF remember THEN RememberMaxAge ELSE SessionMaxAge

\* The fields of the bodies that carry an identity.
LoginUserFields == {"id", "email", "name", "avatar", "last_login"}
UserProfileFields == {"id", "email", "name", "avatar", "created_at", "last_login"}
StatusFields == {"authenticated", "user_id", "email"}

\* The cookie and token values a client may send.
ClientTokens == {NoToken, ForgedToken} \cup (1..minted)

\* ------------------------------------------------------------- login
LoginRequestValid(password) == Len(password) >= LoginMinLen

SessionLifetime(remember) == IF remember THEN RememberMinutes ELSE SessionMinutes

user_is_active_ignored(user_data) == TRUE
user_is_active(user_data) == user_data.is_active

\* The session record login stores: session_expiry is computed from one
\* clock read, created_at from the next.
NewSessionNoUser(user_id, email, t_expiry, t_created, remember) ==
    [user_id |-> NoUser, email |-> email,
     created_at |-> t_created,
     expires_at |-> t_expiry + SessionLifetime(remember),
     remember |-> remember]
NewSession(user_id, email, t_expiry, t_created, remember) ==
    [user_id |-> user_id, email |-> email,
     created_at |-> t_created,
     expires_at |-> t_expiry + SessionLifetime(remember),
     remember |-> remember]

InvalidCredentialsDetail == "Invalid email or password"
DeactivatedDetail == "Account is deactivated. Please contact support."

Login(email, password, remember) ==
    LET key == Lower(email)
        answer(status, detail) ==
            [Response("login", email, NoToken, status, detail)
             EXCEPT !.req_password = password]
        refuse(status, detail) ==
            /\ resp' = answer(status, detail)
            /\ UNCHANGED <<users_db, sessions_db, reset_tokens_db, now,
                           ticks, drift, minted, user_seq, consumed>>
    IN  IF ~LoginRequestValid(password)
        THEN refuse(422, "Password must be at least 6 characters long")
        ELSE IF key \notin DOMAIN users_db
        THEN refuse(401, InvalidCredentialsDetail)
        ELSE IF ~verify_password(password, users_db[key].password_hash)
        THEN refuse(401, InvalidCredentialsDetail)
        ELSE IF ~user_is_active(users_db[key])
        THEN refuse(401, DeactivatedDetail)
        ELSE /\ minted < MaxTokens
             /\ \E r \in ClockReads(3) :
                  LET session_token == create_session_token(minted) IN
                  /\ sessions_db' = Put(sessions_db, session_token,
                        NewSession(users_db[key].id, users_db[key].email,
                                   r[1], r[2], remember))
                  /\ users_db' = [users_db EXCEPT ![key].last_login = r[3]]
                  /\ minted' = session_token
                  /\ now' = r[3]
                  /\ drift' = drift + (r[3] - now)
                  /\ resp' = [answer(200, "Login successful")
                              EXCEPT !.token = session_token,
                                     !.max_age = CookieMaxAge(remember),
                                     !.user_id = users_db[key].id,
                                     !.email = users_db[key].email,
                                     !.fields = LoginUserFields]
             /\ UNCHANGED <<reset_tokens_db, ticks, user_seq, consumed>>

\* ------------------------------------------------------------ logout
\* "del sessions_db[session_token]", and before it a logout that leaves the
\* entry and one that clears the store.
RevokeSessionKept(db, session_token) == db
RevokeSessionAll(db, session_token) == [x \in {} |-> db[x]]
RevokeSession(db, session_token) == Del(db, session_token)

Logout(session_token) ==
    /\ sessions_db' = IF session_token # NoToken /\ session_token \in DOMAIN sessions_db
                      THEN RevokeSession(sessions_db, session_token)
                      ELSE sessions_db
    /\ resp' = [Response("logout", NoString, session_token, 200, "Logged out successfully")
                EXCEPT !.again = (resp.op = "logout" /\ resp.req_token = session_token)]
    /\ UNCHANGED <<users_db, reset_tokens_db, now, ticks, drift, minted,
                   user_seq, consumed>>

\* --------------------------------------------------- forgot-password
GenericResetDetail == "If the email exists, a reset link has been sent."

\* The reset record: created_at from one clock read, expires_at from the next.
NewResetToken(key, t_created, t_expiry) ==
    [email |-> key, created_at |-> t_created,
     expires_at |-> t_expiry + ResetMinutes]

ForgotPassword(email) ==
    LET key == Lower(email) IN
    IF key \notin DOMAIN users_db
    THEN /\ resp' = Response("forgot_password", email, NoToken, 200, GenericResetDetail)
         /\ UNCHANGED <<users_db, sessions_db, reset_tokens_db, now,
                        ticks, drift, minted, user_seq, consumed>>
    ELSE /\ minted < MaxTokens
         /\ \E r \in ClockReads(2) :
              LET reset_token == token_urlsafe(minted) IN
              /\ reset_tokens_db' = Put(reset_tokens_db, reset_token,
                                        NewResetToken(key, r[1], r[2]))
              /\ minted' = reset_token
              /\ now' = r[2]
              /\ drift' = drift + (r[2] - now)
              /\ resp' = [Response("forgot_password", email, NoToken, 200, GenericResetDetail)
                          EXCEPT !.token = reset_token]
         /\ UNCHANGED <<users_db, sessions_db, ticks, user_seq, consumed>>

\* ---------------------------------------------------- reset-password
\* ResetPasswordRequest.validate_new_password: "" when the value passes,
\* else the message of the first check that fails.
validate_new_password(v) ==
    IF Len(v) < ResetMinLen THEN "Password must be at least 6 characters long"
    ELSE IF ~HasUpper(v)
    THEN "Password must contain at least one uppercase letter"
    ELSE IF ~HasLower(v)
    THEN "Password must contain at least one lowercase letter"
    ELSE IF ~HasDigit(v)
    THEN "Password must contain at least one number"
    ELSE ""

\* ResetPasswordRequest as a whole: confirm_password is compared only when
\* new_password passed its own validator.
ResetRequestErrorNoConfirm(new_password, confirm_password) ==
    validate_new_password(new_password)
ResetRequestError(new_password, confirm_password) ==
    IF validate_new_password(new_password) # ""
    THEN validate_new_password(new_password)
    ELSE IF confirm_password # new_password THEN "Passwords do not match"
    ELSE ""

ResetTokenExpiredLate(token_data, t) == t > token_data.expires_at + 1
ResetTokenExpired(token_data, t) == t > token_data.expires_at

\* "Clean up reset token" after the password was rewritten.  Before it, a
\* clean-up that leaves the token and one that removes every token of the
\* token's account.
ConsumeResetTokenKept(db, token) == db
ConsumeResetTokenAccount(db, token) ==
    [t \in {x \in DOMAIN db : db[x].email # db[token].email} |-> db[t]]
ConsumeResetToken(db, token) == Del(db, token)

\* What reset_password does to the session store when it has rewritten the
\* password of the account key: nothing.  Before it, a reset that revokes the
\* sessions of the account.
SessionsAfterResetRevoked(db, key) ==
    [t \in {x \in DOMAIN db : db[x].email # key} |-> db[t]]
SessionsAfterReset(db, key) == db

NotFoundDetail == "Invalid or expired reset token"
ExpiredDetail == "Reset token has expired"

ResetPassword(token, new_password, confirm_password) ==
    LET answer(status, detail) ==
            [Response("reset_password", NoString, token, status, detail)
             EXCEPT !.req_password = new_password]
        refuse(status, detail) ==
            /\ resp' = answer(status, detail)
            /\ UNCHANGED <<users_db, sessions_db, reset_tokens_db, now,
                           ticks, drift, minted, user_seq, consumed>>
    IN  IF ResetRequestError(new_password, confirm_password) # ""
        THEN refuse(422, ResetRequestError(new_password, confirm_password))
        ELSE IF token \notin DOMAIN reset_tokens_db
        THEN refuse(400, NotFoundDetail)
        ELSE IF ResetTokenExpired(reset_tokens_db[token], now)
        THEN /\ reset_tokens_db' = Del(reset_tokens_db, token)
             /\ resp' = answer(400, ExpiredDetail)
             /\ UNCHANGED <<users_db, sessions_db, now, ticks, drift, minted,
                            user_seq, consumed>>
        ELSE LET key == reset_tokens_db[token].email IN
             /\ \E salt \in Salts :
                  users_db' = IF key \in DOMAIN users_db
                              THEN [users_db EXCEPT ![key].password_hash =
                                        hash_password(new_password, salt)]
                              ELSE users_db
             /\ reset_tokens_db' = ConsumeResetToken(reset_tokens_db, token)
             /\ sessions_db' = SessionsAfterReset(sessions_db, key)
             /\ consumed' = consumed \cup {token}
             /\ resp' = answer(200, "Password has been reset successfully")
             /\ UNCHANGED <<now, ticks, drift, minted, user_seq>>

\* ------------------------------------------------------ me and status
SessionExpiredLate(session_data, t) == t > session_data.expires_at + 1
SessionExpired(session_data, t) == t > session_data.expires_at

\* The key under which get_current_user looks the account of a session up,
\* and a lookup that always names the demo account.
SessionUserDemo(session_data) == EmailDemo
SessionUser(session_data) == session_data.email

GetCurrentUser(session_token) ==
    LET refuse(status, detail) ==
            /\ resp' = Response("me", NoString, session_token, status, detail)
            /\ UNCHANGED <<users_db, sessions_db, reset_tokens_db, now,
                           ticks, drift, minted, user_seq, consumed>>
    IN  IF session_token = NoToken \/ session_token \notin DOMAIN sessions_db
        THEN refuse(401, "Not authenticated")
        ELSE IF SessionExpired(sessions_db[session_token], now)
        THEN /\ sessions_db' = Del(sessions_db, session_token)
             /\ resp' = Response("me", NoString, session_token, 401, "Session expired")
             /\ UNCHANGED <<users_db, reset_tokens_db, now, ticks, drift,
                            minted, user_seq, consumed>>
        ELSE IF SessionUser(sessions_db[session_token]) \notin DOMAIN users_db
        THEN refuse(404, "User not found")
        ELSE /\ resp' = [Response("me", NoString, session_token, 200, "")
                         EXCEPT !.user_id = users_db[SessionUser(sessions_db[session_token])].id,
                                !.email = users_db[SessionUser(sessions_db[session_token])].email,
                                !.fields = UserProfileFields]
             /\ UNCHANGED <<users_db, sessions_db, reset_tokens_db, now,
                            ticks, drift, minted, user_seq, consumed>>

AuthStatus(session_token) ==
    IF session_token = NoToken \/ session_token \notin DOMAIN sessions_db
    THEN /\ resp' = Response("status", NoString, session_token, 200, "unauthenticated")
         /\ UNCHANGED <<users_db, sessions_db, reset_tokens_db, now,
                        ticks, drift, minted, user_seq, consumed>>
    ELSE IF SessionExpired(sessions_db[session_token], now)
    THEN /\ sessions_db' = Del(sessions_db, session_token)
         /\ resp' = Response("status", NoString, session_token, 200, "unauthenticated")
         /\ UNCHANGED <<users_db, reset_tokens_db, now, ticks, drift, minted,
                        user_seq, consumed>>
    ELSE /\ resp' = [Response("status", NoString, session_token, 200, "authenticated")
                     EXCEPT !.user_id = sessions_db[session_token].user_id,
                            !.email = sessions_db[session_token].email,
                            !.fields = StatusFields]
         /\ UNCHANGED <<users_db, sessions_db, reset_tokens_db, now,
                        ticks, drift, minted, user_seq, consumed>>

\* Whether a response of /me or /status reports the caller as authenticated.
Authenticated(r) ==
    \/ r.op = "me" /\ r.status = 200
    \/ r.op = "status" /\ r.detail = "authenticated"

\* ----------------------------------------------------- floating point
\* Python floats are IEEE 754 doubles.  A natural number of any size is a
\* sequence of limbs, least significant first, each in 0..LimbBase-1; a
\* positive double is a 53-bit mantissa m and an exponent e, for m * 2^e.
LimbBits == 13
LimbBase == 8192
MantissaBits == 53

RECURSIVE Pow2(_)
Pow2(n) == IF n = 0 THEN 1 ELSE 2 * Pow2(n - 1)

RECURSIVE Trim(_)
Trim(a) ==
    IF a = <<>> THEN a
    ELSE IF a[Len(a)] = 0 THEN Trim(SubSeq(a, 1, Len(a) - 1))
    ELSE a

RECURSIVE BigOfInt(_)
BigOfInt(n) ==
    IF n = 0 THEN <<>> ELSE <<n % LimbBase>> \o BigOfInt(n \div LimbBase)

RECURSIVE IntOfBig(_)
IntOfBig(a) ==
    IF a = <<>> THEN 0 ELSE a[1] + LimbBase * IntOfBig(Tail(a))

RECURSIVE BigMulSmall(_, _, _)
BigMulSmall(a, k, carry) ==
    IF a = <<>> THEN BigOfInt(carry)
    ELSE <<(a[1] * k + carry) % LimbBase>>
            \o BigMulSmall(Tail(a), k, (a[1] * k + carry) \div LimbBase)

RECURSIVE BigAdd(_, _, _)
BigAdd(a, b, carry) ==
    IF a = <<>> /\ b = <<>> THEN BigOfInt(carry)
    ELSE LET x == IF a = <<>> THEN 0 ELSE a[1]
             y == IF b = <<>> THEN 0 ELSE b[1]
             ta == IF a = <<>> THEN a ELSE Tail(a)
             tb == IF b = <<>> THEN b ELSE Tail(b)
         IN  <<(x + y + carry) % LimbBase>>
                \o BigAdd(ta, tb, (x + y + carry) \div LimbBase)

\* a - b - borrow, for a >= b + borrow.
RECURSIVE BigSub(_, _, _)
BigSub(a, b, borrow) ==
    IF a = <<>> THEN <<>>
    ELSE LET y == IF b = <<>> THEN 0 ELSE b[1]
             tb == IF b = <<>> THEN b ELSE Tail(b)
             d == a[1] - y - borrow
         IN  IF d < 0
             THEN <<d + LimbBase>> \o BigSub(Tail(a), tb, 1)
             ELSE <<d>> \o BigSub(Tail(a), tb, 0)

RECURSIVE BigMul(_, _)
BigMul(a, b) ==
    IF b = <<>> THEN <<>>
    ELSE BigAdd(BigMulSmall(a, b[1], 0), <<0>> \o BigMul(a, Tail(b)), 0)

\* a >= b, for numbers without leading zero limbs.
RECURSIVE BigGEFrom(_, _, _)
BigGEFrom(a, b, i) ==
    IF i = 0 THEN TRUE
    ELSE IF a[i] # b[i] THEN a[i] > b[i]
    ELSE BigGEFrom(a, b, i - 1)

BigGE(a, b) ==
    IF Len(a) # Len(b) THEN Len(a) > Len(b) ELSE BigGEFrom(a, b, Len(a))

\* Bit i (from 0) of a, whether a bit below i is set, and the number of bits.
Bit(a, i) ==
    IF i \div LimbBits + 1 > Len(a) THEN 0
    ELSE (a[i \div LimbBits + 1] \div Pow2(i % LimbBits)) % 2

AnyBelow(a, i) == \E j \in 0..(i - 1) : Bit(a, j) = 1

BitLength(a) ==
    IF Trim(a) = <<>> THEN 0
    ELSE CHOOSE n \in 1..(LimbBits * Len(a)) :
            /\ Bit(a, n - 1) = 1
            /\ \A j \in n..(LimbBits * Len(a)) : Bit(a, j) = 0

ShiftLeft(a, s) ==
    [i \in 1..(s \div LimbBits) |-> 0] \o BigMulSmall(a, Pow2(s % LimbBits), 0)

\* Division by a small number, from the most significant limb down.
RECURSIVE DivSmallLimbs(_, _, _, _)
DivSmallLimbs(a, i, rem, k) ==
    IF i = 0 THEN <<>>
    ELSE <<(rem * LimbBase + a[i]) \div k>>
            \o DivSmallLimbs(a, i - 1, (rem * LimbBase + a[i]) % k, k)

Reverse(s) == [i \in 1..Len(s) |-> s[Len(s) + 1 - i]]

BigDivSmall(a, k) == Trim(Reverse(DivSmallLimbs(a, Len(a), 0, k)))

ShiftRight(a, s) ==
    IF s \div LimbBits >= Len(a) THEN <<>>
    ELSE BigDivSmall(SubSeq(a, s \div LimbBits + 1, Len(a)),
                     Pow2(s % LimbBits))

\* a / 2^s rounded to the nearest integer, ties to even; sticky says that
\* a itself stands for a value slightly above a.
RoundShift(a, s, sticky) ==
    IF s = 0 THEN Trim(a)
    ELSE IF /\ Bit(a, s - 1) = 1
            /\ (sticky \/ AnyBelow(a, s - 1) \/ Bit(a, s) = 1)
    THEN Trim(BigAdd(ShiftRight(a, s), <<1>>, 0))
    ELSE ShiftRight(a, s)

\* The double nearest to n * 2^e (ties to even), n > 0.
Normalise(n, e, sticky) ==
    LET L == BitLength(n) IN
    IF L <= MantissaBits
    THEN [m |-> Trim(ShiftLeft(Trim(n), MantissaBits - L)),
          e |-> e - (MantissaBits - L)]
    ELSE LET r == RoundShift(n, L - MantissaBits, sticky) IN
         IF BitLength(r) > MantissaBits
         THEN [m |-> ShiftRight(r, 1), e |-> e + (L - MantissaBits) + 1]
         ELSE [m |-> r, e |-> e + (L - MantissaBits)]

\* float(n) of an integer n > 0.
FloatOfInt(n) == Normalise(BigOfInt(n), 0, FALSE)

\* x * y of two doubles.
FloatMul(x, y) == Normalise(BigMul(x.m, y.m), x.e + y.e, FALSE)

\* Restoring division: n more quotient bits of r / d.  The quotient so far
\* is worked out at every step (Len(q2) >= 0) and not left for the last one.
RECURSIVE DivLoop(_, _, _, _)
DivLoop(r, d, n, q) ==
    IF n = 0 THEN <<q, r>>
    ELSE LET r2 == Trim(BigMulSmall(r, 2, 0))
             q2 == BigMulSmall(q, 2, 0)
         IN  IF Len(q2) >= 0 /\ BigGE(r2, d)
             THEN DivLoop(Trim(BigSub(r2, d, 0)), d, n - 1,
                          Trim(BigAdd(q2, <<1>>, 0)))
             ELSE DivLoop(r2, d, n - 1, q2)

GuardBits == 55

\* x / y of two doubles.
FloatDiv(x, y) ==
    LET first == BigGE(x.m, y.m)
        r0 == IF first THEN Trim(BigSub(x.m, y.m, 0)) ELSE x.m
        qr == DivLoop(r0, y.m, GuardBits, IF first THEN <<1>> ELSE <<>>)
    IN  Normalise(qr[1], x.e - y.e - GuardBits, qr[2] # <<>>)

\* round(x, 1) in tenths: the exact value of the double x rounded to one
\* decimal, ties to even.
RoundTenths(x) == IntOfBig(RoundShift(BigMulSmall(x.m, 10, 0), 0 - x.e, FALSE))

\* ---------------------------------------------------------------- bmi
\* height and weight of MedicalProfileRequest and RegistrationRequest (None,
\* or centimetres and kilograms) and their validators.
NoHeight == -1
MinHeight == 100
MaxHeight == 250
validate_height(v) == v = NoHeight \/ (v >= MinHeight /\ v <= MaxHeight)
NoWeight == -1
MinWeight == 30
MaxWeight == 300
validate_weight(v) == v = NoWeight \/ (v >= MinWeight /\ v <= MaxWeight)

\* bmi = None, and the truth value of an optional number.
NoBmi == -1
Truthy(v) == v # NoHeight /\ v # 0

\* height_m = request.height / 100.  The definition before it leaves the
\* height in centimetres.
height_cm(height) == FloatOfInt(height)
height_m(height) == FloatDiv(FloatOfInt(height), FloatOfInt(100))

\* round(request.weight / (height_m ** 2), 1), in tenths; pow(x, 2.0) is the
\* correctly rounded x * x.
bmi_of(height, weight) ==
    RoundTenths(FloatDiv(FloatOfInt(weight),
                         FloatMul(height_m(height), height_m(height))))

\* The bmi register_user stores.
register_bmi(height, weight) ==
    IF Truthy(height) /\ Truthy(weight) THEN bmi_of(height, weight) ELSE NoBmi

\* ---------------------------------------------------------- register
\* RegistrationRequest.validate_password_strength: "" when the value passes,
\* else the message of the first check that fails.
validate_password_strength(v) ==
    IF Len(v) < RegisterMinLen THEN "Password must be at least 8 characters long"
    ELSE IF ~HasUpper(v)
    THEN "Password must contain at least one uppercase letter"
    ELSE IF ~HasLower(v)
    THEN "Password must contain at least one lowercase letter"
    ELSE IF ~HasDigit(v)
    THEN "Password must contain at least one number"
    ELSE IF ~\E i \in 1..Len(v) : v[i] \in SpecialChars
    THEN "Password must contain at least one special character"
    ELSE ""

\* The key under which register_user looks the account up and stores it,
\* and the email as sent.
RegisterKeyRaw(email) == email
RegisterKey(email) == Lower(email)

\* Variants of the duplicate test: one compares the email as sent, one never
\* finds an account (a check that ran before the other request's insert).
EmailTakenRaw(email) == email \in DOMAIN users_db
EmailTakenNever(email) == FALSE
EmailTakenOrDrafted(email) ==
    \/ Lower(email) \in DOMAIN users_db
    \/ \E x \in DOMAIN registration_sessions :
          \E d \in registration_sessions[x].step1 : Lower(d.email) = Lower(email)
EmailTaken(email) == RegisterKey(email) \in DOMAIN users_db

DuplicateDetail == "An account with this email already exists"

\* The account record register_user stores (the fields the handlers of this
\* module read).
NewUserInactive(user_id, key, password_hash) ==
    [id |-> user_id, email |-> key, password_hash |-> password_hash,
     last_login |-> NoTime, is_active |-> FALSE]
NewUser(user_id, key, password_hash) ==
    [id |-> user_id, email |-> key, password_hash |-> password_hash,
     last_login |-> NoTime, is_active |-> TRUE]

\* "medical_profile" of the record: height, weight and the derived bmi.
MedicalProfile(height, weight) ==
    [height |-> height, weight |-> weight,
     bmi |-> register_bmi(height, weight)]

HeightMessage == "Height must be between 100 and 250 cm"
WeightMessage == "Weight must be between 30 and 300 kg"

RegisterProfile(email, password, height, weight) ==
    LET answer(status, detail) ==
            [Response("register", email, NoToken, status, detail)
             EXCEPT !.req_password = password]
        refuse(status, detail) ==
            /\ resp' = answer(status, detail)
            /\ UNCHANGED <<users_db, sessions_db, reset_tokens_db, now,
                           ticks, drift, minted, user_seq, consumed>>
    IN  IF validate_password_strength(password) # ""
        THEN refuse(422, validate_password_strength(password))
        ELSE IF ~validate_height(height)
        THEN refuse(422, HeightMessage)
        ELSE IF ~validate_weight(weight)
        THEN refuse(422, WeightMessage)
        ELSE IF EmailTaken(email)
        THEN refuse(400, DuplicateDetail)
        ELSE /\ minted < MaxTokens
             /\ \E salt \in Salts, r \in ClockReads(3) :
                  LET user_id == user_seq + 1
                      session_token == create_session_token(minted)
                      key == RegisterKey(email)
                  IN  /\ users_db' = Put(users_db, key,
                            NewUser(user_id, key, hash_password(password, salt))
                                @@ MedicalProfile(height, weight))
                      /\ sessions_db' = Put(sessions_db, session_token,
                            NewSession(user_id, key, r[2], r[3], FALSE))
                      /\ user_seq' = user_id
                      /\ minted' = session_token
                      /\ now' = r[3]
                      /\ drift' = drift + (r[3] - now)
                      /\ resp' = [answer(200,
                                    "Registration successful! Welcome to AI Health Care Assistant.")
                                  EXCEPT !.token = session_token,
                                         !.max_age = CookieMaxAge(FALSE),
                                         !.user_id = user_id,
                                         !.fields = {"user_id"}]
             /\ UNCHANGED <<reset_tokens_db, ticks, consumed>>

\* A register request without height and weight.
Register(email, password) ==
    RegisterProfile(email, password, NoHeight, NoWeight)

\* -------------------------------------------------------- set_active
\* The credential store's set_active(email, bool).
SetActive(key, active) ==
    /\ key \in DOMAIN users_db
    /\ users_db[key].is_active # active
    /\ users_db' = [users_db EXCEPT ![key].is_active = active]
    /\ resp' = Idle
    /\ UNCHANGED <<sessions_db, reset_tokens_db, now, ticks, drift, minted,
                   user_seq, consumed>>

\* --------------------------------------------- registration workflow
\* timedelta(hours=1) of get_registration_session, in minutes, and the max_age
\* of the registration_session cookie, in seconds.
RegistrationMinutes == 60
RegistrationMaxAge == 3600

\* The heights step 2 requests carry.
Heights == {170, 99}

\* PreferencesRequest.language and its validator.
valid_languages == {"en", "vi", "zh", "ja", "ko"}
Languages == {"en", "xx"}
validate_language(v) == v \in valid_languages

\* The emails and passwords step 1 requests carry.
Step1Emails == {EmailDemo, EmailDemoCaps, EmailTestCaps}
Step1Passwords == {PwStrongA, PwShort}

SessionNotFoundDetail == "Registration session not found"

\* A workflow record: created_at, updated_at and, for each step, the set
\* holding the payload saved for it (empty until the step was saved).
NewWorkflow(t) ==
    [created_at |-> t, updated_at |-> NoTime, step1 |-> {}, step2 |-> {},
     step3 |-> {}]

\* registration_sessions[session_id].update({step_name: payload, "updated_at": t}),
\* and before it an assignment of a record that holds that step alone.
MergeStepReplace(db, session_id, step_name, payload, t) ==
    [x \in DOMAIN db |->
        IF x = session_id
        THEN [NewWorkflow(db[x].created_at)
                EXCEPT ![step_name] = {payload}, !.updated_at = t]
        ELSE db[x]]
MergeStep(db, session_id, step_name, payload, t) ==
    [x \in DOMAIN db |->
        IF x = session_id
        THEN [db[x] EXCEPT ![step_name] = {payload}, !.updated_at = t]
        ELSE db[x]]

\* "not session_id or session_id not in registration_sessions", and a test
\* that only looks for the cookie.
WorkflowMissingNoCookie(session_id) == session_id = NoToken
WorkflowMissing(session_id) ==
    session_id = NoToken \/ session_id \notin DOMAIN registration_sessions

\* The expiry test of get_registration_session, and one that measures from
\* the last save.
WorkflowExpiredSliding(session_data, t) ==
    t - session_data.updated_at > RegistrationMinutes
WorkflowExpired(session_data, t) ==
    t - session_data.created_at > RegistrationMinutes

\* "request.email.lower() in users_db" of save_step1, and a test on the
\* email as sent.
Step1EmailTakenRaw(email) == email \in DOMAIN users_db
Step1EmailTaken(email) == Lower(email) \in DOMAIN users_db

SaveStep1Capped(cookie, email, password, cap) ==
    LET answer(status, detail) ==
            [Response("step1", email, cookie, status, detail)
             EXCEPT !.req_password = password]
        refuse(status, detail) ==
            /\ resp' = answer(status, detail)
            /\ UNCHANGED <<registration_sessions, now, drift, minted>>
        fresh == cookie = NoToken
        session_id == IF fresh THEN token_urlsafe(minted) ELSE cookie
        reads == IF session_id \in DOMAIN registration_sessions THEN 1 ELSE 2
    IN  /\ IF validate_password_strength(password) # ""
           THEN refuse(422, validate_password_strength(password))
           ELSE IF Step1EmailTaken(email)
           THEN refuse(400, DuplicateDetail)
           ELSE /\ fresh => minted < MaxTokens
                /\ session_id \notin DOMAIN registration_sessions
                        => Cardinality(DOMAIN registration_sessions) < cap
                /\ \E r \in ClockReads(reads) :
                     LET base == IF session_id \in DOMAIN registration_sessions
                                 THEN registration_sessions
                                 ELSE Put(registration_sessions, session_id,
                                          NewWorkflow(r[1]))
                     IN  /\ registration_sessions' =
                                MergeStep(base, session_id, "step1",
                                          [email |-> email, password |-> password],
                                          r[reads])
                         /\ now' = r[reads]
                         /\ drift' = drift + (r[reads] - now)
                /\ minted' = IF fresh THEN session_id ELSE minted
                /\ resp' = [answer(200, "Step 1 saved successfully")
                            EXCEPT !.token = session_id,
                                   !.max_age = RegistrationMaxAge]
        /\ UNCHANGED <<users_db, sessions_db, reset_tokens_db, ticks,
                       user_seq, consumed>>

SaveStep1(cookie, email, password) ==
    SaveStep1Capped(cookie, email, password, MaxWorkflows)

\* save_step2 and save_step3: the same body for "step2" and "step3".
SaveStep(op, step_name, cookie, payload, error, message) ==
    /\ IF error # ""
       THEN /\ resp' = Response(op, NoString, cookie, 422, error)
            /\ UNCHANGED registration_sessions
       ELSE IF WorkflowMissing(cookie)
       THEN /\ resp' = Response(op, NoString, cookie, 400, SessionNotFoundDetail)
            /\ UNCHANGED registration_sessions
       ELSE /\ registration_sessions' =
                    MergeStep(registration_sessions, cookie, step_name, payload, now)
            /\ resp' = Response(op, NoString, cookie, 200, message)
    /\ UNCHANGED <<users_db, sessions_db, reset_tokens_db, now, ticks, drift,
                   minted, user_seq, consumed>>

SaveStep2(cookie, height) ==
    SaveStep("step2", "step2", cookie, [height |-> height],
             IF validate_height(height) THEN ""
             ELSE "Height must be between 100 and 250 cm",
             "Step 2 saved successfully")

SaveStep3(cookie, language) ==
    SaveStep("step3", "step3", cookie, [language |-> language],
             IF validate_language(language) THEN ""
             ELSE "Please select a supported language",
             "Step 3 saved successfully")

GetRegistrationSession(cookie) ==
    /\ IF WorkflowMissing(cookie)
       THEN /\ resp' = Response("register_session", NoString, cookie, 200, "")
            /\ UNCHANGED registration_sessions
       ELSE IF WorkflowExpired(registration_sessions[cookie], now)
       THEN /\ registration_sessions' = Del(registration_sessions, cookie)
            /\ resp' = [Response("register_session", NoString, cookie, 200, "")
                        EXCEPT !.purged = {registration_sessions[cookie]}]
       ELSE /\ resp' = [Response("register_session", NoString, cookie, 200, "")
                        EXCEPT !.data = {registration_sessions[cookie]}]
            /\ UNCHANGED registration_sessions
    /\ UNCHANGED <<users_db, sessions_db, reset_tokens_db, now, ticks, drift,
                   minted, user_seq, consumed>>

\* ------------------------------------------------------------- clock
\* Time passes between requests: up to the next instant at which a stored
\* entry reaches its expires_at, or, from such an instant, by one minute.
Deadlines ==
    {sessions_db[t].expires_at : t \in DOMAIN sessions_db}
        \cup {reset_tokens_db[t].expires_at : t \in DOMAIN reset_tokens_db}
        \cup {registration_sessions[t].created_at + RegistrationMinutes :
                    t \in DOMAIN registration_sessions}

TickSteps ==
    {d - now : d \in {x \in Deadlines : x > now}}
        \cup (IF now \in Deadlines THEN {1} ELSE {})

Tick(d) ==
    /\ ticks < MaxTicks
    /\ now' = now + d
    /\ ticks' = ticks + 1
    /\ resp' = Idle
    /\ UNCHANGED <<users_db, sessions_db, reset_tokens_db, drift, minted,
                   user_seq, consumed>>

\* ------------------------------------------------- the request loop
LoginStep ==
    /\ \E e \in RawEmails, p \in Passwords, r \in BOOLEAN : Login(e, p, r)
    /\ UNCHANGED <<inflight, registration_sessions, call, profiles_db>>
LogoutStep ==
    /\ \E t \in ClientTokens : Logout(t)
    /\ UNCHANGED <<inflight, registration_sessions, call, profiles_db>>
ForgotPasswordStep ==
    /\ \E e \in RawEmails : ForgotPassword(e)
    /\ UNCHANGED <<inflight, registration_sessions, call, profiles_db>>
ResetPasswordStep ==
    /\ \E t \in ClientTokens \ {NoToken}, p \in Passwords :
          \E c \in {p, PwStrongA} : ResetPassword(t, p, c)
    /\ UNCHANGED <<inflight, registration_sessions, call, profiles_db>>
RegisterStep ==
    /\ \E e \in RawEmails, p \in Passwords : Register(e, p)
    /\ UNCHANGED <<inflight, registration_sessions, call, profiles_db>>
GetCurrentUserStep ==
    /\ \E t \in ClientTokens : GetCurrentUser(t)
    /\ UNCHANGED <<inflight, registration_sessions, call, profiles_db>>
AuthStatusStep ==
    /\ \E t \in ClientTokens : AuthStatus(t)
    /\ UNCHANGED <<inflight, registration_sessions, call, profiles_db>>
TickStep ==
    /\ \E d \in TickSteps : Tick(d)
    /\ UNCHANGED <<inflight, registration_sessions, call, profiles_db>>
SetActiveStep ==
    /\ \E k \in DOMAIN users_db, a \in BOOLEAN : SetActive(k, a)
    /\ UNCHANGED <<inflight, registration_sessions, call, profiles_db>>

SaveStep1Step ==
    /\ \E c \in ClientTokens, e \in Step1Emails, p \in Step1Passwords :
          SaveStep1(c, e, p)
    /\ UNCHANGED <<inflight, call, profiles_db>>
SaveStep2Step ==
    /\ \E c \in ClientTokens, h \in Heights : SaveStep2(c, h)
    /\ UNCHANGED <<inflight, call, profiles_db>>
SaveStep3Step ==
    /\ \E c \in ClientTokens, l \in Languages : SaveStep3(c, l)
    /\ UNCHANGED <<inflight, call, profiles_db>>
GetRegistrationSessionStep ==
    /\ \E c \in ClientTokens : GetRegistrationSession(c)
    /\ UNCHANGED <<inflight, call, profiles_db>>

\* The handlers of the account, session and reset stores.
Next ==
    \/ LoginStep
    \/ LogoutStep
    \/ ForgotPasswordStep
    \/ ResetPasswordStep
    \/ RegisterStep
    \/ GetCurrentUserStep
    \/ AuthStatusStep
    \/ TickStep

Spec == Init /\ [][Next]_vars

\* The account lifecycle with the credential store's set_active.
NextAccounts ==
    \/ LoginStep
    \/ RegisterStep
    \/ SetActiveStep

SpecAccounts == Init /\ [][NextAccounts]_vars

\* The session lifecycle.
NextSession ==
    \/ LoginStep
    \/ LogoutStep
    \/ GetCurrentUserStep
    \/ AuthStatusStep
    \/ TickStep

SpecSession == Init /\ [][NextSession]_vars

\* The password-reset lifecycle.
NextReset ==
    \/ ForgotPasswordStep
    \/ ResetPasswordStep
    \/ TickStep

SpecReset == Init /\ [][NextReset]_vars

\* Sessions of the demo account and of registered accounts.
NextIdentity ==
    \/ LoginStep
    \/ RegisterStep
    \/ LogoutStep
    \/ GetCurrentUserStep
    \/ AuthStatusStep
    \/ TickStep

SpecIdentity == Init /\ [][NextIdentity]_vars

\* Password recovery followed by logins.
NextRecovery ==
    \/ LoginStep
    \/ RegisterStep
    \/ ForgotPasswordStep
    \/ ResetPasswordStep

SpecRecovery == Init /\ [][NextRecovery]_vars

\* Email addresses in several letter cases, through every handler that keys
\* the credential store.
CaseLogin ==
    /\ \E e \in {EmailTest, EmailTestCaps, EmailDemoCaps}, p \in {PwStrongA, PwDemo} :
          Login(e, p, FALSE)
    /\ UNCHANGED <<inflight, registration_sessions, call, profiles_db>>
CaseRegister ==
    /\ \E e \in {EmailTest, EmailTestCaps} : Register(e, PwStrongA)
    /\ UNCHANGED <<inflight, registration_sessions, call, profiles_db>>
CaseForgotPassword ==
    /\ \E e \in {EmailTestCaps, EmailDemoCaps} : ForgotPassword(e)
    /\ UNCHANGED <<inflight, registration_sessions, call, profiles_db>>
CaseResetPassword ==
    /\ \E t \in ClientTokens \ {NoToken} : ResetPassword(t, PwStrongB, PwStrongB)
    /\ UNCHANGED <<inflight, registration_sessions, call, profiles_db>>
CaseSaveStep1 ==
    /\ \E e \in {EmailTest, EmailDemoCaps} : SaveStep1(NoToken, e, PwStrongA)
    /\ UNCHANGED <<inflight, call, profiles_db>>

NextEmails ==
    \/ CaseLogin
    \/ CaseRegister
    \/ CaseForgotPassword
    \/ CaseResetPassword
    \/ CaseSaveStep1

SpecEmails == Init /\ [][NextEmails]_vars

\* Every handler with a validated request body, each with a request that
\* passes validation and one that fails it.
ValidLogin ==
    /\ \E p \in {PwDemo, PwShort} : Login(EmailDemo, p, FALSE)
    /\ UNCHANGED <<inflight, registration_sessions, call, profiles_db>>
ValidRegister ==
    /\ \E p \in {PwStrongA, PwSixNoSymbol} : Register(EmailTest, p)
    /\ UNCHANGED <<inflight, registration_sessions, call, profiles_db>>
ValidForgotPassword ==
    /\ ForgotPassword(EmailDemo)
    /\ UNCHANGED <<inflight, registration_sessions, call, profiles_db>>
ValidResetPassword ==
    /\ \E t \in ClientTokens \ {NoToken}, p \in {PwStrongA, PwShort},
          c \in {PwStrongA, PwStrongB} : ResetPassword(t, p, c)
    /\ UNCHANGED <<inflight, registration_sessions, call, profiles_db>>
ValidSaveStep1 ==
    /\ \E p \in Step1Passwords : SaveStep1(NoToken, EmailTestCaps, p)
    /\ UNCHANGED <<inflight, call, profiles_db>>

NextValidation ==
    \/ ValidLogin
    \/ ValidRegister
    \/ ValidForgotPassword
    \/ ValidResetPassword
    \/ ValidSaveStep1
    \/ SaveStep2Step
    \/ SaveStep3Step

SpecValidation == Init /\ [][NextValidation]_vars

\* The multi-step registration workflow, which shares only the clock, the
\* token generator and the duplicate test with the other handlers.
NextWorkflow ==
    \/ SaveStep1Step
    \/ SaveStep2Step
    \/ SaveStep3Step
    \/ GetRegistrationSessionStep
    \/ TickStep

SpecWorkflow == Init /\ [][NextWorkflow]_vars

\* Every handler of the router, each with one well-formed request per account
\* and every token issued so far.
IssuedTokens == 1..minted

AllLogin ==
    /\ Login(EmailDemo, PwDemo, FALSE)
    /\ UNCHANGED <<inflight, registration_sessions, call, profiles_db>>
AllRegister ==
    /\ Register(EmailTest, PwStrongA)
    /\ UNCHANGED <<inflight, registration_sessions, call, profiles_db>>
AllLogout ==
    /\ \E t \in IssuedTokens : Logout(t)
    /\ UNCHANGED <<inflight, registration_sessions, call, profiles_db>>
AllForgotPassword ==
    /\ ForgotPassword(EmailDemo)
    /\ UNCHANGED <<inflight, registration_sessions, call, profiles_db>>
AllResetPassword ==
    /\ \E t \in IssuedTokens : ResetPassword(t, PwStrongA, PwStrongA)
    /\ UNCHANGED <<inflight, registration_sessions, call, profiles_db>>
AllGetCurrentUser ==
    /\ \E t \in IssuedTokens : GetCurrentUser(t)
    /\ UNCHANGED <<inflight, registration_sessions, call, profiles_db>>
AllAuthStatus ==
    /\ \E t \in IssuedTokens : AuthStatus(t)
    /\ UNCHANGED <<inflight, registration_sessions, call, profiles_db>>
AllSaveStep1 ==
    /\ \E c \in {NoToken} \cup IssuedTokens :
          SaveStep1(c, EmailTest, PwStrongA)
    /\ UNCHANGED <<inflight, call, profiles_db>>
AllSaveStep2 ==
    /\ \E c \in IssuedTokens : SaveStep2(c, 170)
    /\ UNCHANGED <<inflight, call, profiles_db>>
AllSaveStep3 ==
    /\ \E c \in IssuedTokens : SaveStep3(c, "en")
    /\ UNCHANGED <<inflight, call, profiles_db>>
AllGetRegistrationSession ==
    /\ \E c \in IssuedTokens : GetRegistrationSession(c)
    /\ UNCHANGED <<inflight, call, profiles_db>>

NextAll ==
    \/ AllLogin
    \/ AllRegister
    \/ AllLogout
    \/ AllForgotPassword
    \/ AllResetPassword
    \/ AllGetCurrentUser
    \/ AllAuthStatus
    \/ AllSaveStep1
    \/ AllSaveStep2
    \/ AllSaveStep3
    \/ AllGetRegistrationSession
    \/ TickStep

SpecAll == Init /\ [][NextAll]_vars

\* The handlers of the session and reset-token stores for the demo account.
NextAuth ==
    \/ AllLogin
    \/ AllLogout
    \/ AllForgotPassword
    \/ AllResetPassword
    \/ AllGetCurrentUser
    \/ AllAuthStatus
    \/ TickStep

SpecAuth == Init /\ [][NextAuth]_vars

\* The registration workflow next to single-shot registration, with the
\* same email.
NextDraft ==
    \/ AllSaveStep1
    \/ AllSaveStep2
    \/ AllSaveStep3
    \/ AllGetRegistrationSession
    \/ AllRegister
    \/ TickStep

SpecDraft == Init /\ [][NextDraft]_vars

\* Several workflows side by side, each step saved and saved again.
StepHeights == {170, 180}
StepPasswords == {PwStrongA, PwStrongB}

StepsSave1 ==
    /\ \E c \in ClientTokens \ {ForgedToken}, p \in StepPasswords :
          SaveStep1Capped(c, EmailTest, p, MaxStepWorkflows)
    /\ UNCHANGED <<inflight, call, profiles_db>>
StepsSave2 ==
    /\ \E c \in 1..minted, h \in StepHeights : SaveStep2(c, h)
    /\ UNCHANGED <<inflight, call, profiles_db>>
StepsSave3 ==
    /\ \E c \in 1..minted : SaveStep3(c, "en")
    /\ UNCHANGED <<inflight, call, profiles_db>>

NextSteps == StepsSave1 \/ StepsSave2 \/ StepsSave3 \/ TickStep

SpecSteps == Init /\ [][NextSteps]_vars

\* Two register requests accepted together: the event loop runs the two
\* handler bodies one after the other, in either order.
ConcEmails == {EmailTestCaps, EmailTest, EmailOther}
ConcPasswords == {PwStrongA, PwStrongB}

PendingRegister(email, password) ==
    [email |-> email, password |-> password, state |-> "pending",
     status |-> 0, detail |-> "", user_id |-> NoUser, token |-> NoToken,
     password_hash |-> NoString]

InitConc ==
    /\ InitStores
    /\ call = NoCall
    /\ inflight \in [1..2 -> {PendingRegister(e, p) :
                                e \in ConcEmails, p \in ConcPasswords}]

ServeRegister(i) ==
    /\ inflight[i].state = "pending"
    /\ Register(inflight[i].email, inflight[i].password)
    /\ UNCHANGED <<registration_sessions, call, profiles_db>>
    /\ inflight' = [inflight EXCEPT ![i] =
            [email |-> inflight[i].email, password |-> inflight[i].password,
             state |-> "done", status |-> resp'.status,
             detail |-> resp'.detail, user_id |-> resp'.user_id,
             token |-> resp'.token,
             password_hash |->
                 IF resp'.status = 200
                 THEN users_db'[Lower(inflight[i].email)].password_hash
                 ELSE NoString]]

NextConc == \E i \in DOMAIN inflight : ServeRegister(i)

SpecConc == InitConc /\ [][NextConc]_vars

\* The stored digest of every account.
Digests(db) == [k \in DOMAIN db |-> db[k].password_hash]

\* ------------------------------------------------------ function calls
\* Calls of hash_password and verify_password on their own: a password to
\* hash, a password to verify and a digest string, then hash_password on the
\* first (its result becomes the digest) and verify_password of the second
\* against the digest.
PasswordColon == <<97, 58, 98>>
PasswordSurrogate == <<55296>>
HashPasswords == {<<>>, PwDemo, PwStrongA, PasswordColon}
VerifyPasswords == HashPasswords \cup {PasswordSurrogate}
DigestInputs ==
    {SHA256(p) : p \in HashPasswords}
        \cup {<<>>, <<97, 98, 99>>, <<97, Colon>>, <<Colon>>,
              <<97, Colon, 98, Colon, 99>>,
              <<Colon>> \o PBKDF2(PwDemo, <<>>),
              PasswordSurrogate \o <<Colon>>
                  \o PBKDF2(PwDemo, PasswordSurrogate)}

NotReturned == <<>>

InitHashing ==
    /\ InitStores
    /\ inflight = <<>>
    /\ call \in [fn : {"input"}, password : HashPasswords,
                 candidate : VerifyPasswords, digest : DigestInputs,
                 hashed : {FALSE}, result : {NotReturned}]

CallHashPassword ==
    /\ call.fn = "input"
    /\ \E salt \in Salts :
          call' = [call EXCEPT !.fn = "hash_password", !.hashed = TRUE,
                               !.digest = hash_password(call.password, salt)]
    /\ UNCHANGED <<users_db, sessions_db, reset_tokens_db,
                   registration_sessions, now, ticks, drift, minted, user_seq,
                   consumed, resp, inflight, profiles_db>>

CallVerifyPassword ==
    /\ call.fn \in {"input", "hash_password"}
    /\ call' = [call EXCEPT !.fn = "verify_password",
                            !.result = <<verify_password(call.candidate,
                                                         call.digest)>>]
    /\ UNCHANGED <<users_db, sessions_db, reset_tokens_db,
                   registration_sessions, now, ticks, drift, minted, user_seq,
                   consumed, resp, inflight, profiles_db>>

NextHashing == CallHashPassword \/ CallVerifyPassword

SpecHashing == InitHashing /\ [][NextHashing]_vars

\* ------------------------------------------------------ date of birth
Dash == 45
Space == 32
Digit(c) == c - 48

\* The alternatives of the %m and %d directives of datetime.strptime:
\* 1[0-2]|0[1-9]|[1-9] and 3[0-1]|[1-2]\d|0[1-9]|[1-9]| [1-9].
MonthMatches(m) ==
    \/ Len(m) = 2 /\ m[1] = 49 /\ m[2] \in 48..50
    \/ Len(m) = 2 /\ m[1] = 48 /\ m[2] \in 49..57
    \/ Len(m) = 1 /\ m[1] \in 49..57

DayMatches(d) ==
    \/ Len(d) = 2 /\ d[1] = 51 /\ d[2] \in 48..49
    \/ Len(d) = 2 /\ d[1] \in 49..50 /\ IsDigit(d[2])
    \/ Len(d) = 2 /\ d[1] = 48 /\ d[2] \in 49..57
    \/ Len(d) = 1 /\ d[1] \in 49..57
    \/ Len(d) = 2 /\ d[1] = Space /\ d[2] \in 49..57

FieldValue(f) ==
    IF Len(f) = 1 THEN Digit(f[1])
    ELSE IF f[1] = Space THEN Digit(f[2])
    ELSE 10 * Digit(f[1]) + Digit(f[2])

YearValue(y) ==
    1000 * Digit(y[1]) + 100 * Digit(y[2]) + 10 * Digit(y[3]) + Digit(y[4])

IsLeap(y) == y % 4 = 0 /\ (y % 100 # 0 \/ y % 400 = 0)

DaysInMonth(y, m) ==
    IF m = 2 THEN (IF IsLeap(y) THEN 29 ELSE 28)
    ELSE IF m \in {4, 6, 9, 11} THEN 30 ELSE 31

\* The places of the second "-" at which the whole of v matches
\* (\d\d\d\d)-(month)-(day) with nothing left over.
DateSplits(v) ==
    {k \in {7, 8} :
        /\ Len(v) > k
        /\ \A i \in 1..4 : IsDigit(v[i])
        /\ v[5] = Dash
        /\ v[k] = Dash
        /\ MonthMatches(SubSeq(v, 6, k - 1))
        /\ DayMatches(SubSeq(v, k + 1, Len(v)))}

NoDate == <<>>

\* datetime.strptime(v, '%Y-%m-%d') as <<year, month, day>>; NoDate when it
\* raises ValueError (no match, data left over, year 0, or a day the month
\* does not have).
strptime(v) ==
    IF DateSplits(v) = {} THEN NoDate
    ELSE LET k == CHOOSE x \in DateSplits(v) : TRUE
             y == YearValue(SubSeq(v, 1, 4))
             m == FieldValue(SubSeq(v, 6, k - 1))
             d == FieldValue(SubSeq(v, k + 1, Len(v)))
         IN  IF y < 1 \/ d > DaysInMonth(y, m) THEN NoDate ELSE <<y, m, d>>

\* (today.month, today.day) < (birth_date.month, birth_date.day)
BirthdayAhead(today, birth_date) ==
    \/ today[2] < birth_date[2]
    \/ today[2] = birth_date[2] /\ today[3] < birth_date[3]

\* The age as validate_age computes it.
AgeAt(today, birth_date) ==
    today[1] - birth_date[1]
        - (IF BirthdayAhead(today, birth_date) THEN 1 ELSE 0)

MinAge == 13
MaxAge == 120
TooYoungMessage == "You must be at least 13 years old to register"
InvalidBirthMessage == "Please enter a valid date of birth"
DateFormatMessage == "Please enter a valid date in YYYY-MM-DD format"

\* validate_age: "" when v is returned, the message of the ValueError
\* otherwise.
validate_age(v, today) ==
    IF strptime(v) = NoDate THEN DateFormatMessage
    ELSE IF AgeAt(today, strptime(v)) < MinAge THEN TooYoungMessage
    ELSE IF AgeAt(today, strptime(v)) > MaxAge THEN InvalidBirthMessage
    ELSE ""

\* The date_of_birth strings requests carry, and the days datetime.now()
\* may fall on.
BirthYears == {<<50, 48, 49, 51>>, <<50, 48, 49, 52>>, <<49, 57, 48, 54>>, <<49, 57, 48, 53>>, <<50, 48, 48, 48>>, <<48, 48, 48, 48>>}
BirthMonths == {<<49, 49>>, <<49>>, <<48, 49>>, <<48, 50>>, <<49, 51>>}
BirthDays == {<<48, 51>>, <<51>>, <<32, 51>>, <<48, 52>>, <<50, 57>>, <<51, 48>>, <<51, 50>>}
BirthDates ==
    {y \o <<Dash>> \o m \o <<Dash>> \o d :
        y \in BirthYears, m \in BirthMonths, d \in BirthDays}
        \cup {<<>>, <<97, 98, 99>>, <<50, 48, 48, 48, 45, 48, 49, 45, 48, 53, 32>>, <<32, 50, 48, 48, 48, 45, 48, 49, 45, 48, 53>>, <<50, 48, 48, 45, 48, 49, 45, 48, 53>>, <<50, 48, 48, 48, 47, 48, 49, 47, 48, 53>>, <<50, 48, 48, 48, 45, 48, 49>>, <<50, 48, 48, 48, 45, 48, 49, 49, 45, 53>>}
Todays == {<<2026, 11, 3>>, <<2026, 11, 4>>}

InitAge ==
    /\ InitStores
    /\ inflight = <<>>
    /\ call \in [fn : {"input"}, v : BirthDates, today : Todays,
                 result : {NotReturned}]

CallValidateAge ==
    /\ call.fn = "input"
    /\ call' = [call EXCEPT !.fn = "validate_age",
                            !.result = <<validate_age(call.v, call.today)>>]
    /\ UNCHANGED <<users_db, sessions_db, reset_tokens_db,
                   registration_sessions, now, ticks, drift, minted, user_seq,
                   consumed, resp, inflight, profiles_db>>

NextAge == CallValidateAge

SpecAge == InitAge /\ [][NextAge]_vars

\* Register requests with a medical profile: heights and weights missing,
\* out of range and in range.
BmiHeights == {NoHeight, 99, 100, 120, 160, 180, 250}
BmiWeights == {NoWeight, 29, 30, 45, 48, 75, 300}

RegisterProfileStep ==
    /\ \E h \in BmiHeights, w \in BmiWeights :
          RegisterProfile(EmailTest, PwStrongA, h, w)
    /\ UNCHANGED <<inflight, registration_sessions, call, profiles_db>>

NextBmi == RegisterProfileStep

SpecBmi == Init /\ [][NextBmi]_vars

\* Two reset-password requests carrying the same reset token, accepted while
\* the token is in the store and not expired.  reset_password has no await, so
\* the event loop runs each of the two handlers from its first statement to
\* its last before it starts the other; the order is free.
PendingReset(token, new_password) ==
    [token |-> token, password |-> new_password, state |-> "pending",
     status |-> 0, detail |-> "", digests |-> NoString]

AcceptResets ==
    /\ inflight = <<>>
    /\ \E t \in DOMAIN reset_tokens_db, p1 \in ConcPasswords,
          p2 \in ConcPasswords :
          /\ ~ResetTokenExpired(reset_tokens_db[t], now)
          /\ inflight' = <<PendingReset(t, p1), PendingReset(t, p2)>>
    /\ UNCHANGED <<users_db, sessions_db, reset_tokens_db,
                   registration_sessions, now, ticks, drift, minted, user_seq,
                   consumed, resp, call, profiles_db>>

ServeReset(i) ==
    /\ inflight[i].state = "pending"
    /\ ResetPassword(inflight[i].token, inflight[i].password,
                     inflight[i].password)
    /\ UNCHANGED <<registration_sessions, call, profiles_db>>
    /\ inflight' = [inflight EXCEPT ![i] =
            [token |-> inflight[i].token, password |-> inflight[i].password,
             state |-> "done", status |-> resp'.status,
             detail |-> resp'.detail,
             digests |->
                 IF resp'.status = 200
                 THEN Digests(users_db')
                 ELSE NoString]]

NextConcReset ==
    \/ ForgotPasswordStep
    \/ AcceptResets
    \/ \E i \in DOMAIN inflight : ServeReset(i)
    \/ TickStep

SpecConcReset == Init /\ [][NextConcReset]_vars

\* ------------------------------------------------------------ claims
Stores == <<users_db, sessions_db, reset_tokens_db>>

\* The session the cookie of the last /me or /status request named, as the
\* handler found it.
Resolving(t) == resp'.op \in {"me", "status"} /\ resp'.req_token = t

\* C1 as stated: a /me or /status request whose cookie names a session with
\* now >= expires_at is answered as not authenticated and the session is
\* gone afterwards.
C1_ExpiredAtExpiry ==
    [][\A t \in DOMAIN sessions_db :
          (Resolving(t) /\ now >= sessions_db[t].expires_at)
              => (~Authenticated(resp') /\ t \notin DOMAIN sessions_db')]_vars

\* C1 amended: a /me or /status request whose cookie names a session with
\* now > expires_at is answered as not authenticated and the session is gone
\* afterwards; a token that was issued and is no longer in sessions_db never
\* returns to it, and resolving it is answered as not authenticated.
C1_ExpiredAfterExpiry ==
    [][/\ \A t \in DOMAIN sessions_db :
            (Resolving(t) /\ now > sessions_db[t].expires_at)
                => (~Authenticated(resp') /\ t \notin DOMAIN sessions_db')
       /\ \A t \in (1..minted) \ DOMAIN sessions_db :
            /\ t \notin DOMAIN sessions_db'
            /\ Resolving(t) => ~Authenticated(resp')]_vars

\* A /me request has just purged a session that was past its expiry.
C1_Witness ==
    /\ resp.op = "me"
    /\ resp.detail = "Session expired"
    /\ resp.req_token \in (1..minted) \ DOMAIN sessions_db

\* C2: every stored session has expires_at = created_at + 30 days when
\* remember is true and created_at + 1 day when it is false.
C2_ExactExpiry ==
    \A t \in DOMAIN sessions_db :
        sessions_db[t].expires_at =
            sessions_db[t].created_at + SessionLifetime(sessions_db[t].remember)

\* C3: once a reset-password request with token t has succeeded, every later
\* reset-password request with t fails, with the invalid-or-expired error when
\* its fields are valid, and changes no account's password digest.
C3_SingleUse ==
    [][(resp'.op = "reset_password" /\ resp'.req_token \in consumed)
          => /\ resp'.status \in {400, 422}
             /\ resp'.status = 400 => resp'.detail = NotFoundDetail
             /\ Digests(users_db') = Digests(users_db)]_vars

\* A consumed reset token was presented again, in a valid request, and refused.
C3_Witness ==
    /\ resp.op = "reset_password"
    /\ resp.req_token \in consumed
    /\ resp.status = 400

\* C4: a login for an account whose active flag is false fails, whatever the
\* password, adds no session and does not update the account's last_login.
C4_InactiveNeverAuthenticates ==
    [][(/\ resp'.op = "login"
        /\ Lower(resp'.req_email) \in DOMAIN users_db
        /\ ~users_db[Lower(resp'.req_email)].is_active)
          => /\ resp'.status # 200
             /\ resp'.token = NoToken
             /\ sessions_db' = sessions_db
             /\ users_db' = users_db]_vars

\* A login with the correct password was refused for an inactive account.
C4_Witness ==
    /\ resp.op = "login"
    /\ resp.detail = DeactivatedDetail
    /\ ~users_db[Lower(resp.req_email)].is_active

\* C5: every failed login of a valid request answers 401 with the one
\* message of the unknown-email case.
C5_UniformFailure ==
    (resp.op = "login" /\ resp.status \notin {200, 422})
        => (resp.status = 401 /\ resp.detail = InvalidCredentialsDetail)

KeysNormalized(db) == \A k \in DOMAIN db : Lower(k) = k /\ db[k].email = k

\* C6: a register request for an email whose lowercase form is already a key
\* of the credential store fails, with 400 DuplicateAccount when its fields are
\* valid, and leaves every store unchanged; every key of the credential store
\* is the lowercase email of its record.
C6_DuplicateRefused ==
    /\ KeysNormalized(users_db)
    /\ [][/\ (resp'.op = "register" /\ Lower(resp'.req_email) \in DOMAIN users_db)
              => /\ resp'.status \in {400, 422}
                 /\ resp'.status = 400 => resp'.detail = DuplicateDetail
                 /\ Stores' = Stores
          /\ KeysNormalized(users_db')]_vars

\* "Test@X.com" was registered, and "test@x.com" was then refused as a
\* duplicate.
C6_Witness ==
    /\ resp.op = "register"
    /\ resp.req_email = EmailTest
    /\ resp.status = 400
    /\ EmailTest \in DOMAIN users_db
    /\ users_db[EmailTest].id # DemoUserId

\* The account and the session a served register request created are the ones
\* the stores hold for its email.
RegisteredBy(q) ==
    /\ q.status = 200
    /\ Lower(q.email) \in DOMAIN users_db
    /\ users_db[Lower(q.email)].id = q.user_id
    /\ users_db[Lower(q.email)].password_hash = q.password_hash
    /\ verify_password(q.password, users_db[Lower(q.email)].password_hash)
    /\ q.token \in DOMAIN sessions_db
    /\ sessions_db[q.token].user_id = q.user_id

BothServed == \A i \in DOMAIN inflight : inflight[i].state = "done"

\* C7: of two register requests served in either order, for emails without an
\* account, both succeed when the normalized emails differ; when they are
\* equal exactly one succeeds, the other gets 400 DuplicateAccount, and the
\* stored account and the issued session are the successful request's.
C7_ConcurrentRegister ==
    (DOMAIN inflight = {1, 2} /\ BothServed) =>
        IF Lower(inflight[1].email) # Lower(inflight[2].email)
        THEN RegisteredBy(inflight[1]) /\ RegisteredBy(inflight[2])
        ELSE \E w \in {1, 2} :
                /\ RegisteredBy(inflight[w])
                /\ inflight[3 - w].status = 400
                /\ inflight[3 - w].detail = DuplicateDetail

\* "Test@X.com" and "test@x.com" were registered together; one was refused.
C7_Witness ==
    /\ DOMAIN inflight = {1, 2}
    /\ BothServed
    /\ inflight[1].email = EmailTestCaps
    /\ inflight[2].email = EmailTest
    /\ inflight[1].status = 400
    /\ inflight[2].status = 200

\* C8: forgot-password stores expires_at one hour after the clock read that
\* ends the call, and a valid reset-password request made after that instant
\* fails with 400, changes no password digest and removes the token's entry.
C8_ExpiredTokenRefused ==
    [][/\ (resp'.op = "forgot_password" /\ resp'.token # NoToken)
            => reset_tokens_db'[resp'.token].expires_at = now' + ResetMinutes
       /\ \A t \in DOMAIN reset_tokens_db :
            (/\ resp'.op = "reset_password"
             /\ resp'.req_token = t
             /\ resp'.status # 422
             /\ now > reset_tokens_db[t].expires_at)
                => /\ resp'.status = 400
                   /\ Digests(users_db') = Digests(users_db)
                   /\ t \notin DOMAIN reset_tokens_db']_vars

\* A token issued at minute 0 was presented at minute 61 and refused.
C8_Witness ==
    /\ resp.op = "reset_password"
    /\ resp.status = 400
    /\ resp.detail = ExpiredDetail
    /\ now = ResetMinutes + 1
    /\ resp.req_token \notin DOMAIN reset_tokens_db

\* C9: every reset-password request refused with 400 gets the one response of
\* the unknown-token case.
C9_UniformRefusal ==
    (resp.op = "reset_password" /\ resp.status = 400)
        => resp.detail = NotFoundDetail

\* C10: a reset-password request whose new_password fails the registration
\* policy is rejected with a validation error, consumes no token and changes
\* no digest.
C10_ResetUsesRegistrationPolicy ==
    [][\A t \in ClientTokens, p \in Passwords :
          (ResetPassword(t, p, p) /\ validate_password_strength(p) # "")
              => /\ resp'.status = 422
                 /\ reset_tokens_db' = reset_tokens_db
                 /\ users_db' = users_db]_vars

\* The payloads saved for the three steps of a workflow record.
StepPayloads(w) == <<w.step1, w.step2, w.step3>>

\* C11: a step 2 or step 3 request succeeds only when its cookie names a
\* workflow entry with now <= created_at + 1 hour; a valid request whose
\* cookie names an entry past that instant fails with 400 SessionNotFound and
\* leaves the payloads of the entry as they were.
C11_StepsRequireLiveWorkflow ==
    [][resp'.op \in {"step2", "step3"} =>
          LET c == resp'.req_token IN
          /\ resp'.status = 200 =>
                /\ c \in DOMAIN registration_sessions
                /\ now <= registration_sessions[c].created_at + RegistrationMinutes
          /\ (/\ c \in DOMAIN registration_sessions
              /\ now > registration_sessions[c].created_at + RegistrationMinutes
              /\ resp'.status # 422)
                => /\ resp'.status = 400
                   /\ resp'.detail = SessionNotFoundDetail
                   /\ c \in DOMAIN registration_sessions' =>
                        StepPayloads(registration_sessions'[c]) =
                            StepPayloads(registration_sessions[c])]_vars

\* C12: a step 2 or step 3 request with no registration_session cookie, or
\* with a cookie that is not a key of the workflow store, is answered 400
\* SessionNotFound when its payload is valid (422 when it is not) and leaves
\* the workflow store unchanged.
C12_MissingWorkflowRefused ==
    [][\A c \in ClientTokens :
          (c = NoToken \/ c \notin DOMAIN registration_sessions) =>
              /\ \A h \in Heights :
                    SaveStep2(c, h) =>
                        /\ resp'.status = IF validate_height(h) THEN 400 ELSE 422
                        /\ resp'.status = 400 => resp'.detail = SessionNotFoundDetail
                        /\ registration_sessions' = registration_sessions
              /\ \A l \in Languages :
                    SaveStep3(c, l) =>
                        /\ resp'.status = IF validate_language(l) THEN 400 ELSE 422
                        /\ resp'.status = 400 => resp'.detail = SessionNotFoundDetail
                        /\ registration_sessions' = registration_sessions]_vars

\* While a workflow is stored, a step 2 request with a cookie that names no
\* workflow was refused.
C12_Witness ==
    /\ resp.op = "step2"
    /\ resp.status = 400
    /\ resp.req_token = ForgedToken
    /\ ForgedToken \notin DOMAIN registration_sessions
    /\ registration_sessions # <<>>

\* C13: no request changes the created_at of a workflow entry it leaves in
\* the store, and a GET /register/session whose cookie names an entry with
\* now > created_at + 1 hour returns no data and removes the entry, whenever
\* the entry was last saved.
C13_AbsoluteLifetime ==
    [][/\ \A c \in DOMAIN registration_sessions \cap DOMAIN registration_sessions' :
            registration_sessions'[c].created_at = registration_sessions[c].created_at
       /\ \A c \in DOMAIN registration_sessions :
            (/\ resp'.op = "register_session"
             /\ resp'.req_token = c
             /\ now > registration_sessions[c].created_at + RegistrationMinutes)
                => /\ resp'.data = {}
                   /\ c \notin DOMAIN registration_sessions']_vars

\* A read removed a workflow that was more than an hour old and had been
\* saved in the same minute.
C13_Witness ==
    /\ resp.op = "register_session"
    /\ resp.data = {}
    /\ resp.req_token \notin DOMAIN registration_sessions
    /\ \E w \in resp.purged :
          /\ w.updated_at = now
          /\ now > w.created_at + RegistrationMinutes
          /\ w.step2 # {}

\* The fields of a session record that fix its owner and its lifetime.
SessionCore(session_data) ==
    <<session_data.expires_at, session_data.created_at, session_data.user_id,
      session_data.email>>

\* C14: no request changes the expires_at, created_at, account id or email of
\* a session entry that is in sessions_db before and after it.
C14_SessionNeverExtended ==
    [][\A t \in DOMAIN sessions_db \cap DOMAIN sessions_db' :
          SessionCore(sessions_db'[t]) = SessionCore(sessions_db[t])]_vars

\* A second session was issued while an earlier one was stored.
C14_Witness ==
    /\ resp.op \in {"login", "register"}
    /\ resp.status = 200
    /\ \E t \in DOMAIN sessions_db : t # resp.token

\* C15: a logout is answered with success whatever its cookie; after it the
\* named token is not in sessions_db, every other session and every other
\* store is as before, and a logout that repeats the one before it leaves
\* sessions_db as it found it.
C15_LogoutIdempotent ==
    [][resp'.op = "logout" =>
          LET t == resp'.req_token IN
          /\ resp'.status = 200
          /\ t \notin DOMAIN sessions_db'
          /\ sessions_db' = [u \in DOMAIN sessions_db \ {t} |-> sessions_db[u]]
          /\ users_db' = users_db
          /\ reset_tokens_db' = reset_tokens_db
          /\ resp'.again => sessions_db' = sessions_db]_vars

\* An issued session token was logged out twice in a row.
C15_Witness ==
    /\ resp.op = "logout"
    /\ resp.again
    /\ resp.req_token \in 1..minted
    /\ resp.status = 200

\* C16: forgot-password for an email without an account answers with the
\* generic message and leaves reset_tokens_db unchanged; for an email with an
\* account it adds exactly one entry, for the lowercase email, whose
\* expires_at is its created_at plus one hour.
C16_ForgotPasswordToken ==
    [][resp'.op = "forgot_password" =>
          LET key == Lower(resp'.req_email) IN
          /\ resp'.status = 200
          /\ resp'.detail = GenericResetDetail
          /\ IF key \notin DOMAIN users_db
             THEN reset_tokens_db' = reset_tokens_db
             ELSE \E t \in DOMAIN reset_tokens_db' \ DOMAIN reset_tokens_db :
                    /\ DOMAIN reset_tokens_db' = DOMAIN reset_tokens_db \cup {t}
                    /\ \A u \in DOMAIN reset_tokens_db :
                            reset_tokens_db'[u] = reset_tokens_db[u]
                    /\ reset_tokens_db'[t].email = key
                    /\ reset_tokens_db'[t].expires_at =
                            reset_tokens_db'[t].created_at + ResetMinutes]_vars

\* C17: /me and /status report an identity only for a cookie that names a
\* session of sessions_db with now <= expires_at, and answer unauthenticated
\* (401 for /me) otherwise; the identity is the session's account id and
\* email, which are the ones login or register stored when it issued the
\* token and which no request changes; the body has no password digest field.
C17_ResolveIdentity ==
    [][/\ resp'.op \in {"me", "status"} =>
            LET t == resp'.req_token
                live == /\ t # NoToken
                        /\ t \in DOMAIN sessions_db
                        /\ now <= sessions_db[t].expires_at
            IN  /\ Authenticated(resp') => live
                /\ ~live => /\ ~Authenticated(resp')
                            /\ resp'.op = "me" => resp'.status = 401
                            /\ resp'.user_id = NoUser
                /\ Authenticated(resp') =>
                      /\ resp'.user_id = sessions_db[t].user_id
                      /\ resp'.email = sessions_db[t].email
                      /\ "password_hash" \notin resp'.fields
       /\ (resp'.op \in {"login", "register"} /\ resp'.status = 200) =>
            /\ resp'.token \notin DOMAIN sessions_db
            /\ sessions_db'[resp'.token].user_id = resp'.user_id
            /\ sessions_db'[resp'.token].email = Lower(resp'.req_email)
            /\ users_db'[Lower(resp'.req_email)].id = resp'.user_id
       /\ \A t \in DOMAIN sessions_db \cap DOMAIN sessions_db' :
            /\ sessions_db'[t].user_id = sessions_db[t].user_id
            /\ sessions_db'[t].email = sessions_db[t].email]_vars

\* /me resolved the session register issued to the account it created.
C17_Witness ==
    /\ resp.op = "me"
    /\ resp.status = 200
    /\ resp.user_id # DemoUserId
    /\ resp.req_token \in DOMAIN sessions_db

\* The passwords of every request of the model.
AllPasswords == Passwords \cup {PwStrongB}

\* C18: a successful reset-password for account e with new password p_new
\* leaves a digest of e that verifies p_new and changes no other account's
\* digest; no other request changes the digest of an account; and a login for
\* an account whose digest verifies q succeeds when its password is q and
\* fails when it is not.
C18_ResetThenLogin ==
    [][/\ IF resp'.op = "reset_password" /\ resp'.status = 200
          THEN LET e == reset_tokens_db[resp'.req_token].email IN
               /\ e \in DOMAIN users_db'
               /\ verify_password(resp'.req_password, users_db'[e].password_hash)
               /\ \A k \in DOMAIN users_db \ {e} :
                    users_db'[k].password_hash = users_db[k].password_hash
          ELSE \A k \in DOMAIN users_db :
                    users_db'[k].password_hash = users_db[k].password_hash
       /\ (resp'.op = "login" /\ Lower(resp'.req_email) \in DOMAIN users_db) =>
            \A q \in AllPasswords :
                verify_password(q, users_db[Lower(resp'.req_email)].password_hash)
                    => (resp'.status = 200 <=> resp'.req_password = q)]_vars

\* After a reset of the demo account's password, a login with the old
\* password "demo123" was refused.
C18_Witness ==
    /\ resp.op = "login"
    /\ resp.req_email = EmailDemo
    /\ resp.req_password = PwDemo
    /\ resp.status = 401
    /\ consumed # {}

\* C19: a successful register stores, under the lowercase email, which had no
\* account, an active account whose digest verifies the submitted password,
\* and a session under a token never issued before, for that account, not
\* remembered, expiring one day after a clock read of the request; a login
\* with the same email and password that follows it succeeds, and a /me with
\* the issued token that follows it returns the new account.
C19_RegisterCreatesAccountAndSession ==
    [][/\ (resp'.op = "register" /\ resp'.status = 200) =>
            LET key == Lower(resp'.req_email)
                tok == resp'.token
            IN  /\ key \notin DOMAIN users_db
                /\ key \in DOMAIN users_db'
                /\ users_db'[key].is_active
                /\ users_db'[key].email = key
                /\ users_db'[key].id = resp'.user_id
                /\ verify_password(resp'.req_password, users_db'[key].password_hash)
                /\ tok \notin (1..minted) \cup DOMAIN sessions_db
                /\ tok \in DOMAIN sessions_db'
                /\ sessions_db'[tok].user_id = resp'.user_id
                /\ sessions_db'[tok].email = key
                /\ ~sessions_db'[tok].remember
                /\ sessions_db'[tok].expires_at - SessionMinutes \in now..now'
       /\ (resp.op = "register" /\ resp.status = 200) =>
            /\ (/\ resp'.op = "login"
                /\ Lower(resp'.req_email) = Lower(resp.req_email)
                /\ resp'.req_password = resp.req_password)
                  => (resp'.status = 200 /\ resp'.user_id = resp.user_id)
            /\ (resp'.op = "me" /\ resp'.req_token = resp.token)
                  => /\ resp'.status = 200
                     /\ resp'.user_id = resp.user_id
                     /\ resp'.email = Lower(resp.req_email)]_vars

\* A registered account logged in with the password it registered with.
C19_Witness ==
    /\ resp.op = "login"
    /\ resp.status = 200
    /\ resp.user_id # DemoUserId
    /\ resp.req_email = EmailTestCaps

\* C20: when login or register has set the session_token cookie, its value
\* is a key of sessions_db and its max_age, in seconds, is the expires_at
\* minus the created_at of that entry.
C20_CookieMaxAge ==
    (resp.op \in {"login", "register"} /\ resp.status = 200) =>
        /\ resp.token \in DOMAIN sessions_db
        /\ resp.max_age = 60 * (sessions_db[resp.token].expires_at
                                    - sessions_db[resp.token].created_at)
        /\ resp.max_age = CookieMaxAge(sessions_db[resp.token].remember)

\* C21: when step 1 has set the registration_session cookie, the cookie names
\* an entry of the workflow store and does not outlive it: the instant of the
\* response plus max_age is not later than the entry's created_at plus one
\* hour.
C21_RegistrationCookieMaxAge ==
    (resp.op = "step1" /\ resp.status = 200) =>
        /\ resp.token \in DOMAIN registration_sessions
        /\ 60 * now + resp.max_age <=
              60 * (registration_sessions[resp.token].created_at + RegistrationMinutes)

\* C25: every key a request adds to the session, reset-token or workflow
\* store is a token the generator drew during that request.
C25_KeysAreMinted ==
    [][\A k \in (DOMAIN sessions_db' \ DOMAIN sessions_db)
                    \cup (DOMAIN reset_tokens_db' \ DOMAIN reset_tokens_db)
                    \cup (DOMAIN registration_sessions' \ DOMAIN registration_sessions) :
          k \in (minted + 1)..minted']_vars

\* C26: a valid step 1 request for an email whose lowercase form has an
\* account is answered 400 (duplicate account) and leaves the workflow store
\* unchanged; any other valid step 1 request is answered 200, stores its
\* payload as step 1 of the entry its cookie names, keeping that entry's
\* created_at and other steps, or of a new entry.
C26_Step1DuplicateCheck ==
    [][\A c \in ClientTokens, e \in Step1Emails, p \in Step1Passwords :
          (SaveStep1(c, e, p) /\ validate_password_strength(p) = "") =>
              IF Lower(e) \in DOMAIN users_db
              THEN /\ resp'.status = 400
                   /\ resp'.detail = DuplicateDetail
                   /\ registration_sessions' = registration_sessions
              ELSE LET t == resp'.token IN
                   /\ resp'.status = 200
                   /\ t \in DOMAIN registration_sessions'
                   /\ registration_sessions'[t].step1 =
                          {[email |-> e, password |-> p]}
                   /\ c \in DOMAIN registration_sessions =>
                        /\ t = c
                        /\ registration_sessions'[t].created_at =
                              registration_sessions[c].created_at
                        /\ registration_sessions'[t].step2 = registration_sessions[c].step2
                        /\ registration_sessions'[t].step3 = registration_sessions[c].step3
                   /\ c = NoToken => t \notin DOMAIN registration_sessions
                   /\ \A u \in DOMAIN registration_sessions \ {t} :
                        /\ u \in DOMAIN registration_sessions'
                        /\ registration_sessions'[u] = registration_sessions[u]]_vars

\* While a workflow was stored, a step 1 request for "Demo@Healthcare.ai" was
\* refused as a duplicate of the demo account.
C26_Witness ==
    /\ resp.op = "step1"
    /\ resp.req_email = EmailDemoCaps
    /\ resp.status = 400
    /\ resp.detail = DuplicateDetail
    /\ registration_sessions # <<>>

\* C22: every key of the credential store is the lowercase email of its
\* record; a register for an email whose lowercase form is a key is refused,
\* and a successful one stores the account under the lowercase form; a login
\* whose email, lowercased, is a key and whose password verifies against that
\* account succeeds as that account; a forgot-password whose email,
\* lowercased, is a key issues a token for that key; a successful
\* reset-password rewrites the digest of the account keyed by its token's
\* email; a step 1 for an email whose lowercase form is a key is refused.
C22_EmailsNormalized ==
    /\ KeysNormalized(users_db)
    /\ [][LET key == Lower(resp'.req_email)
              known == key \in DOMAIN users_db
          IN  /\ KeysNormalized(users_db')
              /\ (resp'.op = "register" /\ resp'.status # 422) =>
                    IF known THEN resp'.status = 400
                    ELSE /\ resp'.status = 200
                         /\ DOMAIN users_db' = DOMAIN users_db \cup {key}
              /\ (resp'.op = "login" /\ resp'.status # 422 /\ known) =>
                    IF verify_password(resp'.req_password, users_db[key].password_hash)
                    THEN resp'.status = 200 /\ resp'.user_id = users_db[key].id
                    ELSE resp'.status = 401
              /\ (resp'.op = "forgot_password" /\ known) =>
                    /\ resp'.token \in DOMAIN reset_tokens_db'
                    /\ reset_tokens_db'[resp'.token].email = key
              /\ (resp'.op = "reset_password" /\ resp'.status = 200) =>
                    /\ reset_tokens_db[resp'.req_token].email \in DOMAIN users_db
                    /\ verify_password(resp'.req_password,
                          users_db'[reset_tokens_db[resp'.req_token].email].password_hash)
              /\ (resp'.op = "step1" /\ resp'.status # 422 /\ known) =>
                    resp'.status = 400]_vars

\* A forgot-password for "Demo@Healthcare.ai" issued a token for the account
\* stored as "demo@healthcare.ai".
C22_Witness ==
    /\ resp.op = "forgot_password"
    /\ resp.req_email = EmailDemoCaps
    /\ resp.token \in DOMAIN reset_tokens_db
    /\ reset_tokens_db[resp.token].email = EmailDemo

\* C23: a request answered with a validation error (422) leaves the
\* credential, session, reset-token and workflow stores unchanged; a login,
\* register, reset-password or step 2 request whose fields fail validation is
\* answered 422 whatever the stores hold; and a reset-password with a valid
\* body that follows a rejected one for the same stored, unexpired token
\* succeeds.
C23_ValidationBeforeStores ==
    [][/\ resp'.status = 422 =>
            /\ Stores' = Stores
            /\ registration_sessions' = registration_sessions
       /\ resp'.op = "reset_password" =>
            \A c \in AllPasswords \ {resp'.req_password} :
                ResetPassword(resp'.req_token, resp'.req_password, c)
                    => resp'.status = 422
       /\ (resp'.op = "login" /\ Len(resp'.req_password) < LoginMinLen)
            => resp'.status = 422
       /\ (resp'.op = "register" /\ validate_password_strength(resp'.req_password) # "")
            => resp'.status = 422
       /\ resp'.op = "step2" =>
            \A h \in Heights :
                (~validate_height(h) /\ SaveStep2(resp'.req_token, h))
                    => resp'.status = 422
       /\ (/\ resp.op = "reset_password"
           /\ resp.status = 422
           /\ resp'.op = "reset_password"
           /\ resp'.req_token = resp.req_token
           /\ resp'.status # 422
           /\ resp.req_token \in DOMAIN reset_tokens_db
           /\ now <= reset_tokens_db[resp.req_token].expires_at)
                => resp'.status = 200]_vars

\* A reset-password whose confirm_password differed was rejected and its
\* token is still stored.
C23_Witness ==
    /\ resp.op = "reset_password"
    /\ resp.status = 422
    /\ resp.detail = "Passwords do not match"
    /\ resp.req_token \in DOMAIN reset_tokens_db

\* C24: of two reset-password requests carrying the same valid token, served
\* in either order, at most one changes the password; the other is answered
\* 400 "Invalid or expired reset token", neither is answered 500, the token
\* is gone, and the stored digests are the ones the successful request wrote.
C24_ConcurrentReset ==
    (DOMAIN inflight = {1, 2} /\ BothServed) =>
        /\ \A i \in {1, 2} : inflight[i].status \in {200, 400}
        /\ \E i \in {1, 2} : inflight[i].status = 400
        /\ \A w \in {1, 2} :
              inflight[w].status = 200 =>
                  /\ inflight[3 - w].status = 400
                  /\ inflight[3 - w].detail = NotFoundDetail
                  /\ inflight[w].token \notin DOMAIN reset_tokens_db
                  /\ Digests(users_db) = inflight[w].digests

\* Both requests were served, with different new passwords: one succeeded and
\* the other was refused.
C24_Witness ==
    /\ DOMAIN inflight = {1, 2}
    /\ BothServed
    /\ inflight[1].password # inflight[2].password
    /\ inflight[2].status = 200
    /\ inflight[1].status = 400
    /\ inflight[1].detail = NotFoundDetail
    /\ verify_password(inflight[2].password,
                       users_db[EmailDemo].password_hash)

\* C27: verify_password of a password against the digest hash_password made
\* of a password answers true exactly when the two passwords are the same,
\* whatever salt hash_password drew.
C27_HashRoundTrip ==
    (call.fn = "verify_password" /\ call.hashed /\ Encodable(call.candidate)) =>
        call.result = <<call.candidate = call.password>>

\* A password with a ":" verified against its own salted digest, and another
\* password refused against it.
C27_Witness ==
    /\ call.fn = "verify_password"
    /\ call.hashed
    /\ call.password = PasswordColon
    /\ call.candidate = PasswordColon
    /\ call.result = <<TRUE>>

\* C28: verify_password returns a boolean for every password and digest; a
\* digest without ":" verifies exactly when it is the SHA-256 hex digest of
\* the password; any other digest verifies only when it is the salt, ":" and
\* the PBKDF2 hex digest of the password under that salt, so a malformed
\* digest answers false.
C28_VerifyTotal ==
    call.fn = "verify_password" =>
        /\ call.result \in {<<TRUE>>, <<FALSE>>}
        /\ ~HasColon(call.digest) =>
              call.result = <<Encodable(call.candidate)
                                /\ call.digest = SHA256(call.candidate)>>
        /\ call.result = <<TRUE>> =>
              \/ call.digest = SHA256(call.candidate)
              \/ /\ HasColon(call.digest)
                 /\ call.digest = hash_password(call.candidate,
                                                SplitOnce(call.digest)[1])

\* The legacy digest of the demo password verified, without a hash_password
\* call.
C28_Witness ==
    /\ call.fn = "verify_password"
    /\ ~call.hashed
    /\ call.digest = SHA256(PwDemo)
    /\ call.candidate = PwDemo
    /\ call.result = <<TRUE>>

\* A date string of the form YYYY-MM-DD (four, two and two digits) that
\* names a day of the calendar.
WellFormedDate(v) ==
    /\ Len(v) = 10
    /\ \A i \in {1, 2, 3, 4, 6, 7, 9, 10} : IsDigit(v[i])
    /\ v[5] = Dash
    /\ v[8] = Dash
    /\ strptime(v) # NoDate

\* C30 as stated: a well-formed YYYY-MM-DD date is accepted exactly when the
\* age at today is in 13..120, an age of 12 is refused with the "must be at
\* least 13" message, and a malformed date is refused.
C30_DateOfBirth ==
    call.fn = "validate_age" =>
        /\ WellFormedDate(call.v) =>
              /\ call.result = <<"">>
                    <=> AgeAt(call.today, strptime(call.v)) \in MinAge..MaxAge
              /\ AgeAt(call.today, strptime(call.v)) = MinAge - 1
                    => call.result = <<TooYoungMessage>>
        /\ ~WellFormedDate(call.v) => call.result # <<"">>

\* C29: an account registered with both height and weight holds a bmi, in
\* tenths, that is weight / (height / 100)^2 rounded to one decimal (no other
\* tenth is nearer to the quotient); an account registered without one of
\* them holds no bmi; height 180 and weight 75 give 23.1.
C29_Bmi ==
    \A k \in DOMAIN users_db :
        "bmi" \in DOMAIN users_db[k] =>
            LET h == users_db[k].height
                w == users_db[k].weight
                b == users_db[k].bmi
                off == b * h * h - 100000 * w
            IN  IF h = NoHeight \/ w = NoWeight
                THEN b = NoBmi
                ELSE /\ b # NoBmi
                     /\ 2 * off <= h * h
                     /\ 0 - 2 * off <= h * h
                     /\ (h = 180 /\ w = 75) => b = 231

\* An account registered with height 180 and weight 75 holds bmi 23.1.
C29_Witness ==
    /\ EmailTest \in DOMAIN users_db
    /\ users_db[EmailTest].height = 180
    /\ users_db[EmailTest].weight = 75
    /\ users_db[EmailTest].bmi = 231
    /\ resp.op = "register"
    /\ resp.status = 200

\* What a save of payload under step_name may change in the existing entry
\* session_id: that step and updated_at, nothing else in the entry and nothing
\* in any other entry.
StepFrame(session_id, step_name, payload) ==
    /\ DOMAIN registration_sessions' = DOMAIN registration_sessions
    /\ \A x \in DOMAIN registration_sessions \ {session_id} :
          registration_sessions'[x] = registration_sessions[x]
    /\ registration_sessions'[session_id][step_name] = {payload}
    /\ registration_sessions'[session_id].updated_at = now'
    /\ registration_sessions'[session_id].created_at
            = registration_sessions[session_id].created_at
    /\ \A other \in {"step1", "step2", "step3"} \ {step_name} :
          registration_sessions'[session_id][other]
            = registration_sessions[session_id][other]

\* C31: a successful save of step 1, 2 or 3 on an existing workflow entry sets
\* that step's payload to the one sent (whatever was stored for it before) and
\* updated_at to the time of the save, and leaves created_at, the two other
\* steps and every other entry as they were.
C31_SaveReplacesOneStep ==
    [][/\ \A c \in DOMAIN registration_sessions, h \in StepHeights :
            (SaveStep2(c, h) /\ resp'.status = 200)
                => StepFrame(c, "step2", [height |-> h])
       /\ \A c \in DOMAIN registration_sessions :
            (SaveStep3(c, "en") /\ resp'.status = 200)
                => StepFrame(c, "step3", [language |-> "en"])
       /\ \A c \in DOMAIN registration_sessions, p \in StepPasswords :
            (SaveStep1Capped(c, EmailTest, p, MaxStepWorkflows)
                    /\ resp'.status = 200)
                => StepFrame(c, "step1", [email |-> EmailTest, password |-> p])
      ]_vars

\* Two workflows are stored; in one, step 2 was saved again with another
\* height after all three steps had been saved, and the other is complete too.
C31_Witness ==
    /\ resp.op = "step2"
    /\ resp.status = 200
    /\ Cardinality(DOMAIN registration_sessions) = 2
    /\ \A x \in DOMAIN registration_sessions :
          /\ registration_sessions[x].step1 # {}
          /\ registration_sessions[x].step3 # {}
    /\ \E x, y \in DOMAIN registration_sessions :
          /\ registration_sessions[x].step2 = {[height |-> 180]}
          /\ registration_sessions[y].step2 = {[height |-> 170]}
          /\ registration_sessions[x].updated_at
                > registration_sessions[x].created_at

\* C32: an entry leaves the session store only in a /me, /status or logout
\* request that carries its own token, and in /me and /status only when it is
\* past its expiry; an entry leaves the reset-token store only in a
\* reset-password request that carries it; an entry leaves the workflow store
\* only in a read of the registration session that carries it and finds it
\* past its lifetime.  No other step removes an entry, expired or not.
C32_LazyExpiry ==
    [][/\ \A t \in DOMAIN sessions_db \ DOMAIN sessions_db' :
            /\ resp'.req_token = t
            /\ \/ resp'.op = "logout"
               \/ /\ resp'.op \in {"me", "status"}
                  /\ SessionExpired(sessions_db[t], now)
       /\ \A t \in DOMAIN reset_tokens_db \ DOMAIN reset_tokens_db' :
            /\ resp'.req_token = t
            /\ resp'.op = "reset_password"
       /\ \A t \in DOMAIN registration_sessions
                    \ DOMAIN registration_sessions' :
            /\ resp'.req_token = t
            /\ resp'.op = "register_session"
            /\ WorkflowExpired(registration_sessions[t], now)
      ]_vars

\* A login succeeded while an expired session of an earlier login was in the
\* store, and the expired session is still there.
C32_Witness ==
    /\ resp.op = "login"
    /\ resp.status = 200
    /\ \E t \in DOMAIN sessions_db :
          /\ t # resp.token
          /\ SessionExpired(sessions_db[t], now)

\* C33: every session in the store names an email that is a key of the
\* credential store and the id of that account, and no /me request is
\* answered 404 "User not found".
C33_SessionsNameAccounts ==
    /\ \A t \in DOMAIN sessions_db :
          /\ sessions_db[t].email \in DOMAIN users_db
          /\ sessions_db[t].user_id = users_db[sessions_db[t].email].id
    /\ resp.op = "me" => resp.status # 404

\* /me answered with the profile of a registered account, found through the
\* session its registration issued.
C33_Witness ==
    /\ resp.op = "me"
    /\ resp.status = 200
    /\ resp.req_token \in DOMAIN sessions_db
    /\ sessions_db[resp.req_token].email = EmailTest
    /\ resp.user_id = users_db[EmailTest].id
    /\ resp.user_id # DemoUserId

\* C34: a reset-password request, successful or not, leaves the session
\* store as it was; and a /status or /me request that carries a session that
\* is in the store and not past its expiry is answered as authenticated for
\* the session's account, whatever the account's password is by then.
C34_ResetKeepsSessions ==
    [][/\ resp'.op = "reset_password" => sessions_db' = sessions_db
       /\ \A t \in DOMAIN sessions_db :
            (Resolving(t) /\ ~SessionExpired(sessions_db[t], now))
                => /\ Authenticated(resp')
                   /\ resp'.email = sessions_db[t].email
                   /\ sessions_db' = sessions_db
      ]_vars

\* The demo account's password was reset with a token issued after the
\* session was, and the session still resolves as authenticated.
C34_Witness ==
    /\ resp.op = "status"
    /\ Authenticated(resp)
    /\ resp.email = EmailDemo
    /\ \E c \in consumed : c > resp.req_token
    /\ ~verify_password(PwDemo, users_db[EmailDemo].password_hash)
    /\ verify_password(PwStrongA, users_db[EmailDemo].password_hash)

\* C35: a forgot-password request leaves every reset token already in the
\* store as it was; a reset-password request changes no entry of the store
\* but the one of the token it carries; and a well-formed reset-password
\* request that carries a token that is in the store and not past its expiry
\* succeeds, sets the account's password to the one sent and removes that
\* token, however many other tokens of the account are outstanding or were
\* used before.
C35_TokensIndependent ==
    [][/\ resp'.op = "forgot_password" =>
            \A t \in DOMAIN reset_tokens_db :
                /\ t \in DOMAIN reset_tokens_db'
                /\ reset_tokens_db'[t] = reset_tokens_db[t]
       /\ resp'.op = "reset_password" =>
            \A t \in DOMAIN reset_tokens_db \ {resp'.req_token} :
                /\ t \in DOMAIN reset_tokens_db'
                /\ reset_tokens_db'[t] = reset_tokens_db[t]
       /\ \A t \in DOMAIN reset_tokens_db :
            (/\ resp'.op = "reset_password"
             /\ resp'.req_token = t
             /\ resp'.status # 422
             /\ ~ResetTokenExpired(reset_tokens_db[t], now))
                => /\ resp'.status = 200
                   /\ t \notin DOMAIN reset_tokens_db'
                   /\ verify_password(resp'.req_password,
                        users_db'[reset_tokens_db[t].email].password_hash)
      ]_vars

\* Two tokens were issued for the demo account before either was used; both
\* have been used, the second after the first, and the password is the one
\* the second reset sent.
C35_Witness ==
    /\ consumed = {1, 2}
    /\ resp.op = "reset_password"
    /\ resp.status = 200
    /\ reset_tokens_db = <<>>
    /\ verify_password(resp.req_password, users_db[EmailDemo].password_hash)
    /\ resp.req_password = PwSixNoSymbol

\* C36: a step 1, step 2, step 3 or registration-session request leaves the
\* credential store and the session store as they were; and a well-formed
\* register request for an email without an account succeeds, whether or not a
\* workflow holds that email in its step 1.
C36_WorkflowCreatesNothing ==
    [][/\ resp'.op \in {"step1", "step2", "step3", "register_session"} =>
            /\ users_db' = users_db
            /\ sessions_db' = sessions_db
       /\ (/\ resp'.op = "register"
           /\ resp'.status # 422
           /\ Lower(resp'.req_email) \notin DOMAIN users_db)
            => /\ resp'.status = 200
               /\ Lower(resp'.req_email) \in DOMAIN users_db'
      ]_vars

\* An account was registered with the email a stored workflow holds in its
\* step 1, with steps 2 and 3 saved too.
C36_Witness ==
    /\ resp.op = "register"
    /\ resp.status = 200
    /\ EmailTest \in DOMAIN users_db
    /\ \E x \in DOMAIN registration_sessions :
          /\ \E d \in registration_sessions[x].step1 : d.email = EmailTest
          /\ registration_sessions[x].step2 # {}
          /\ registration_sessions[x].step3 # {}

\* C37: a login request for an email without an account, with a password
\* that does not verify or for an inactive account is refused, adds no
\* session, carries no token and no cookie, and changes no store; so is every
\* other login request that is not answered 200; and the last_login of an
\* account changes only in a login of that account that is answered 200.
C37_FailedLoginChangesNothing ==
    [][/\ resp'.op = "login" =>
            LET key == Lower(resp'.req_email)
                failing ==
                    \/ key \notin DOMAIN users_db
                    \/ ~verify_password(resp'.req_password,
                                        users_db[key].password_hash)
                    \/ ~users_db[key].is_active
            IN  /\ failing => resp'.status # 200
                /\ resp'.status # 200 =>
                      /\ <<users_db, sessions_db, reset_tokens_db, minted>>'
                            = <<users_db, sessions_db, reset_tokens_db, minted>>
                      /\ resp'.token = NoToken
                      /\ resp'.max_age = 0
       /\ \A k \in DOMAIN users_db :
            users_db'[k].last_login # users_db[k].last_login
                => /\ resp'.op = "login"
                   /\ resp'.status = 200
                   /\ Lower(resp'.req_email) = k
      ]_vars

\* A login of the demo account with a wrong password was refused after an
\* earlier login had succeeded; the session and last_login of the earlier
\* login are in place.
C37_Witness ==
    /\ resp.op = "login"
    /\ resp.status = 401
    /\ resp.req_email = EmailDemo
    /\ ~verify_password(resp.req_password, users_db[EmailDemo].password_hash)
    /\ users_db[EmailDemo].last_login # NoTime
    /\ Cardinality(DOMAIN sessions_db) = 1

\* C38: a login leaves every session already in the store as it was; a
\* logout, /me or /status request changes no entry of the session store but
\* the one of the token it carries; and a /me or /status request that carries
\* a session that is in the store and not past its expiry is answered as
\* authenticated, whatever happened to other sessions of the account.
C38_SessionsIndependent ==
    [][/\ resp'.op = "login" =>
            \A t \in DOMAIN sessions_db :
                /\ t \in DOMAIN sessions_db'
                /\ sessions_db'[t] = sessions_db[t]
       /\ resp'.op \in {"logout", "me", "status"} =>
            \A t \in DOMAIN sessions_db \ {resp'.req_token} :
                /\ t \in DOMAIN sessions_db'
                /\ sessions_db'[t] = sessions_db[t]
       /\ \A t \in DOMAIN sessions_db :
            (Resolving(t) /\ ~SessionExpired(sessions_db[t], now))
                => /\ Authenticated(resp')
                   /\ resp'.email = sessions_db[t].email
      ]_vars

\* The demo account logged in twice; the first session was logged out and the
\* second one resolves as authenticated.
C38_Witness ==
    /\ resp.op = "me"
    /\ Authenticated(resp)
    /\ resp.req_token = 2
    /\ resp.email = EmailDemo
    /\ minted = 2
    /\ DOMAIN sessions_db = {2}
    /\ users_db[EmailDemo].last_login # NoTime
    /\ DOMAIN reset_tokens_db = {}
    /\ consumed = {}

\* ------------------------------------------- the user-profile store
\* users.py keeps user profiles in a dictionary of its own, keyed by the
\* uuid4 string create_user draws.  An attribute of a profile or of a request
\* body is None or <<v>>.
None == <<>>
Some(v) == <<v>>
MaxProfiles == 2
\* An id no create_user returned.
ForgedId == -1
NameA == <<65>>
NameB == <<66>>
GenderF == <<102>>

\* str(uuid4()) after n draws: a value no earlier draw returned.
uuid4(n) == n + 1

UserNotFoundDetail == "User not found"

ProfileResponse(op, req_id, status, detail, body) ==
    [op |-> op, req_id |-> req_id, status |-> status, detail |-> detail,
     body |-> body, req_fields |-> {}]

\* response_model=UserProfile: name, age and gender are required and not
\* Optional, so a profile that holds None in one of them fails the
\* validation of the response and the request is answered 500.
ResponseValid(user) ==
    /\ user.name # None
    /\ user.age # None
    /\ user.gender # None
Returned(op, req_id, user) ==
    IF ResponseValid(user)
    THEN ProfileResponse(op, req_id, 200, "", <<user>>)
    ELSE ProfileResponse(op, req_id, 500, "Internal Server Error", <<>>)

\* medical_history=user_data.medical_history or []
HistoryOrEmpty(medical_history) ==
    IF medical_history = None \/ medical_history = Some(<<>>)
    THEN Some(<<>>) ELSE medical_history

create_user(name, email, age, gender, medical_history) ==
    /\ minted < MaxProfiles
    /\ \E r \in ClockReads(2) :
         LET user_id == uuid4(minted)
             user == [id |-> user_id, name |-> Some(name), email |-> email,
                      age |-> Some(age), gender |-> Some(gender),
                      medical_history |-> HistoryOrEmpty(medical_history),
                      created_at |-> r[1], updated_at |-> r[2]]
         IN  /\ profiles_db' = Put(profiles_db, user_id, user)
             /\ minted' = user_id
             /\ now' = r[2]
             /\ drift' = drift + (r[2] - now)
             /\ resp' = Returned("create_user", user_id, user)
    /\ UNCHANGED <<users_db, sessions_db, reset_tokens_db, ticks, user_seq,
                   consumed>>

get_user(user_id) ==
    /\ resp' = IF user_id \notin DOMAIN profiles_db
               THEN ProfileResponse("get_user", user_id, 404,
                                    UserNotFoundDetail, <<>>)
               ELSE Returned("get_user", user_id, profiles_db[user_id])
    /\ UNCHANGED <<users_db, sessions_db, reset_tokens_db, now, ticks, drift,
                   minted, user_seq, consumed, profiles_db>>

\* for field, value in update_data.items(): setattr(user, field, value)
SetAttrs(user, update_data) ==
    [field \in DOMAIN user |->
        IF field \in DOMAIN update_data THEN update_data[field]
        ELSE user[field]]
\* user.updated_at = datetime.utcnow()
Touch(user, t) == [user EXCEPT !.updated_at = t]

\* update_data is user_data.dict(exclude_unset=True): the fields the body
\* names, each with the value the body gives it, null included.
update_user(user_id, update_data) ==
    IF user_id \notin DOMAIN profiles_db
    THEN /\ resp' = [ProfileResponse("update_user", user_id, 404,
                                     UserNotFoundDetail, <<>>)
                     EXCEPT !.req_fields = DOMAIN update_data]
         /\ UNCHANGED <<users_db, sessions_db, reset_tokens_db, now, ticks,
                        drift, minted, user_seq, consumed, profiles_db>>
    ELSE \E r \in ClockReads(1) :
         LET user == Touch(SetAttrs(profiles_db[user_id], update_data), r[1])
         IN  /\ profiles_db' = [profiles_db EXCEPT ![user_id] = user]
             /\ resp' = [Returned("update_user", user_id, user)
                         EXCEPT !.req_fields = DOMAIN update_data]
             /\ UNCHANGED <<users_db, sessions_db, reset_tokens_db, now,
                            ticks, drift, minted, user_seq, consumed>>

delete_user(user_id) ==
    /\ IF user_id \notin DOMAIN profiles_db
       THEN /\ resp' = ProfileResponse("delete_user", user_id, 404,
                                       UserNotFoundDetail, <<>>)
            /\ UNCHANGED profiles_db
       ELSE /\ profiles_db' = Del(profiles_db, user_id)
            /\ resp' = ProfileResponse("delete_user", user_id, 200,
                                       "User deleted successfully", <<>>)
    /\ UNCHANGED <<users_db, sessions_db, reset_tokens_db, now, ticks, drift,
                   minted, user_seq, consumed>>

\* response_model=List[UserProfile]
list_users ==
    /\ resp' = IF \A id \in DOMAIN profiles_db : ResponseValid(profiles_db[id])
               THEN ProfileResponse("list_users", ForgedId, 200, "",
                                    {profiles_db[id] : id \in DOMAIN profiles_db})
               ELSE ProfileResponse("list_users", ForgedId, 500,
                                    "Internal Server Error", <<>>)
    /\ UNCHANGED <<users_db, sessions_db, reset_tokens_db, now, ticks, drift,
                   minted, user_seq, consumed, profiles_db>>

\* The requests of the profile clients: ids that were or will be returned
\* and one that never is; bodies that name no field, one field, two fields,
\* and a field with null.
ProfileIds == 1..MaxProfiles \cup {ForgedId}
Histories == {None, Some(<<>>)}
UpdateBodies ==
    {<<>>,
     [field \in {"age"} |-> Some(31)],
     [field \in {"name"} |-> Some(NameB)],
     [field \in {"name"} |-> None],
     [field \in {"medical_history"} |-> None],
     [field \in {"age", "name"} |->
        IF field = "age" THEN Some(31) ELSE Some(NameB)]}

CreateUserStep ==
    /\ \E h \in Histories : create_user(NameA, EmailTest, 30, GenderF, h)
    /\ UNCHANGED <<inflight, registration_sessions, call>>
GetUserStep ==
    /\ \E id \in ProfileIds : get_user(id)
    /\ UNCHANGED <<inflight, registration_sessions, call>>
UpdateUserStep ==
    /\ \E id \in ProfileIds, body \in UpdateBodies : update_user(id, body)
    /\ UNCHANGED <<inflight, registration_sessions, call>>
DeleteUserStep ==
    /\ \E id \in ProfileIds : delete_user(id)
    /\ UNCHANGED <<inflight, registration_sessions, call>>
ListUsersStep ==
    /\ list_users
    /\ UNCHANGED <<inflight, registration_sessions, call>>
ProfileTickStep ==
    /\ Tick(1)
    /\ UNCHANGED <<inflight, registration_sessions, call, profiles_db>>

NextProfiles ==
    \/ CreateUserStep
    \/ GetUserStep
    \/ UpdateUserStep
    \/ DeleteUserStep
    \/ ListUsersStep
    \/ ProfileTickStep

SpecProfiles == Init /\ [][NextProfiles]_vars

\* The ids create_user returned so far, and those of them deleted since.
ReturnedIds == 1..minted
DeletedIds == ReturnedIds \ DOMAIN profiles_db

\* C39: a get_user or update_user request for an id create_user returned and
\* no delete_user removed is answered 200; a get_user, update_user or
\* delete_user request for a deleted id is answered 404; and update_user
\* changes, of the profile it names, only the fields its body names and
\* updated_at, and leaves every other profile as it was.
C39_ProfileLifecycle ==
    [][/\ \A id \in DOMAIN profiles_db :
            (resp'.op \in {"get_user", "update_user"} /\ resp'.req_id = id)
                => resp'.status = 200
       /\ \A id \in DeletedIds :
            (resp'.op \in {"get_user", "update_user", "delete_user"}
                /\ resp'.req_id = id)
                => /\ resp'.status = 404
                   /\ id \notin DOMAIN profiles_db'
       /\ resp'.op = "update_user" =>
            \A id \in DOMAIN profiles_db :
                /\ id \in DOMAIN profiles_db'
                /\ \A field \in DOMAIN profiles_db[id] :
                     profiles_db'[id][field] # profiles_db[id][field]
                        => /\ id = resp'.req_id
                           /\ field \in resp'.req_fields \cup {"updated_at"}
      ]_vars

====
